---- MODULE Spec2Model ----
(***************************************************************************)
(* The paragraph processing pipeline of the AI grammar checker             *)
(* (src/utils/checker_core.py): create_prompt, call_ai_api with its retry  *)
(* loop, and process_paragraphs with progress notification, session        *)
(* refresh pacing and the inter-paragraph throttle; the command line       *)
(* program (src/grammar_checker.py) with its configuration file; and the   *)
(* desktop program (src/desktop_app.py), whose worker thread runs the      *)
(* pipeline and reports to the main window through queued signals.         *)
(*                                                                         *)
(* Conventions.  Strings that the source writes in Chinese are written     *)
(* here as ASCII names; the comment at each definition gives the source    *)
(* text.  A paragraph text is an opaque tag (a natural number).  A         *)
(* requirement string of additional_checks is a sequence of characters, so *)
(* that str.strip() is computed and not assumed.  Durations are counted    *)
(* in ticks of half a second: time.sleep(0.5) is 1 tick, time.sleep(1) is  *)
(* 2 ticks.                                                                *)
(***************************************************************************)
EXTENDS Naturals, Sequences, FiniteSets

VARIABLES
    paragraphs,         \* argument: List[str]
    config,             \* argument: Dict
    progress_callback,  \* argument: "none" (None), "ok" (returns), "raising" (may raise)
    pc,                 \* position of process_paragraphs / call_ai_api
    i,                  \* enumerate index of the paragraph loop (0-based)
    j,                  \* enumerate index of the additional-check loop (0-based)
    row,                \* the dict under construction, as an ordered list of <<key, value>>
    results,            \* the list of finished rows
    prompt,             \* call_ai_api: its prompt argument
    target,             \* the key of row the pending call's value is assigned to
    attempt,            \* call_ai_api: loop variable of range(max_retries)
    errs,               \* call_ai_api: the exceptions its attempts raised, in order
    tries,              \* call_ai_api: litellm.completion invocations of this call
    naps,               \* call_ai_api: the durations of the time.sleep calls of this call
    ret,                \* call_ai_api: the value it returned
    exc,                \* the exception process_paragraphs ended with, or "none"
    exc_message,        \* str(e) of that exception, as a sequence of parts
    calls,              \* number of litellm.completion invocations so far
    faults,             \* number of litellm.completion invocations that raised
    sleeps,             \* number of time.sleep calls so far, by call site
    clock,              \* total time slept so far, in ticks
    refreshed,          \* loop positions i at which the refresh pause was taken
    notes,              \* the invocations of progress_callback so far, in order
    backend,            \* litellm.completion: "any", or "deterministic" in prompt and attempt
    answers,            \* what a deterministic backend has answered: <<prompt, attempt, outcome>>
    run,                \* the number of this call of process_paragraphs, or of the next
    previous,           \* how the call before this one ended
    files,              \* grammar_checker.py: the file system, path -> text or Absent
    config_path,        \* grammar_checker.py main: args.config
    word_paragraphs,    \* grammar_checker.py run: what read_word_document returns
    main_pc,            \* grammar_checker.py: position of main / run / process_paragraphs
    checker,            \* grammar_checker.py main: the GrammarChecker, or NoChecker
    caught,             \* grammar_checker.py main: the ConfigFileNotFoundError handled
    cli_i,              \* GrammarChecker.process_paragraphs: enumerate index
    cli_k,              \* GrammarChecker.process_paragraphs: index into additional_checks
    result,             \* GrammarChecker.process_paragraphs: the dict under construction
    cli_results,        \* GrammarChecker.process_paragraphs: its list results
    main_exc,           \* the exception main ended with, or "none"
    cli_sleeps,         \* GrammarChecker.process_paragraphs: time.sleep(0.5) calls
    printed,            \* grammar_checker.py run, save_to_excel: what they printed
    word_files,         \* batch_processor.py: the documents of word_files, in order
    batch_i,            \* batch_processor.py: i of the loop over word_files, 1-based
    current_paragraphs, \* desktop_app.py MainWindow: the paragraphs of the loaded document
    form,               \* desktop_app.py MainWindow: the values of the input widgets
    start_btn,          \* desktop_app.py MainWindow: start_btn.isEnabled()
    progress_bar,       \* desktop_app.py MainWindow: progress_bar, visible and value
    status_label,       \* desktop_app.py MainWindow: status_label, visible and text
    dialog,             \* desktop_app.py MainWindow: the last QMessageBox shown
    saved,              \* desktop_app.py: the rows of the last spreadsheet written
    processing_thread,  \* desktop_app.py: "none", or the state of the ProcessingThread
    signals,            \* desktop_app.py: emitted signals queued for the UI thread
    same_list,          \* desktop_app.py: processing_thread.paragraphs is current_paragraphs
    create_prompt_args,     \* create_prompt called on its own: its arguments
    create_prompt_returns,  \* ... and what its successive calls returned
    uploaded_file,      \* app.py main: the uploaded document, if any
    session_state,      \* app.py: st.session_state, the settings of the sidebar
    st_pc,              \* app.py: position in main and process_paragraphs
    st_paragraphs,      \* app.py process_paragraphs: paragraphs
    st_config,          \* app.py process_paragraphs: config
    st_i,               \* app.py process_paragraphs: i
    st_j,               \* app.py process_paragraphs: j
    result_row,         \* app.py process_paragraphs: result_row
    st_results,         \* app.py process_paragraphs: results
    st_progress_bar,    \* app.py process_paragraphs: the value shown by progress_bar
    status_text,        \* app.py process_paragraphs: the text shown by status_text
    st_completions,     \* app.py call_ai_api: the prompts of its litellm.completion calls
    st_faults,          \* app.py call_ai_api: litellm.completion calls that raised
    st_sleeps,          \* app.py process_paragraphs: time.sleep calls by call site
    st_clock,           \* app.py process_paragraphs: time slept, in half seconds
    st_exc,             \* app.py process_paragraphs: the exception that ended it
    st_error,           \* app.py main: the last st.error shown
    result_df,          \* app.py main: the DataFrame process_paragraphs returned
    word_file,          \* the document a reader is given: readable or not, its raw texts
    reader              \* which reader is given word_file, and whether it has returned

\* the variables of the command line program, src/grammar_checker.py
\* the loop of batch_process_documents, src/batch_processor.py
batchVars == <<word_files, batch_i>>

cliVars == <<files, config_path, word_paragraphs, main_pc, checker, caught,
             cli_i, cli_k, result, cli_results, main_exc, cli_sleeps, printed,
             batchVars>>

\* the state of the main window of src/desktop_app.py that only the UI
\* thread is meant to touch
uiVars == <<current_paragraphs, form, start_btn, progress_bar, status_label,
            dialog, saved>>

desktopVars == <<uiVars, processing_thread, signals, same_list>>

\* create_prompt called on its own, outside of process_paragraphs
createPromptVars == <<create_prompt_args, create_prompt_returns>>

\* the Streamlit program, src/app.py
streamlitVars == <<uploaded_file, session_state, st_pc, st_paragraphs, st_config,
                   st_i, st_j, result_row, st_results, st_progress_bar,
                   status_text, st_completions, st_faults, st_sleeps, st_clock,
                   st_exc, st_error, result_df>>

\* the document readers on their own: read_word_document of
\* src/grammar_checker.py and load_word_document of src/desktop_app.py
readerVars == <<word_file, reader>>

\* what concerns a repeated call of process_paragraphs
rerunVars == <<backend, run, previous>>

vars == <<paragraphs, config, progress_callback, pc, i, j, row, results, prompt,
          target, attempt, errs, tries, naps, ret, exc, exc_message, calls, faults,
          sleeps, clock, refreshed, notes, answers, rerunVars, cliVars,
          desktopVars, createPromptVars, streamlitVars, readerVars>>

-----------------------------------------------------------------------------
(* Bounds of the model *)

MaxParas == 2       \* paragraphs per run, general inputs
MaxChecks == 2      \* entries of additional_checks, general inputs
MaxRetries == 2     \* largest configured max_retries
MaxFaults == 3      \* backend failures per run
MaxRuns == 2        \* runs started in the desktop program
MaxDocs == 2         \* documents of a batch
MaxPromptCalls == 2 \* calls of create_prompt on the same arguments
LongParas == 7      \* paragraphs per run, pacing inputs

(* Program constants *)

ThrottleDelay == 1          \* time.sleep(0.5)
RefreshDelay == 2           \* time.sleep(1)
DefaultRetryDelay == 2      \* config.get("retry_delay", 1)
DefaultMaxRetries == 3      \* config.get("max_retries", 3)
DefaultInterval == 3        \* config.get("session_refresh_interval", 3)

-----------------------------------------------------------------------------
(* Strings *)

Whitespace == {" "}

RECURSIVE LStrip(_)
LStrip(s) ==
    IF s # <<>> /\ Head(s) \in Whitespace THEN LStrip(Tail(s)) ELSE s

RECURSIVE RStrip(_)
RStrip(s) ==
    IF s # <<>> /\ s[Len(s)] \in Whitespace
    THEN RStrip(SubSeq(s, 1, Len(s) - 1))
    ELSE s

\* str.strip()
Strip(s) == RStrip(LStrip(s))

\* StripTruthy without the strip: "if check:"
Truthy(check) == check # <<>>

\* "if check.strip():" -- a non-empty string is truthy
StripTruthy(check) == Strip(check) # <<>>

EmptyReq == <<>>                    \* ""
SpacesReq == <<" ", " ">>           \* "  "
LogicReq == <<"l", "o", "g">>       \* "check logic"
PaddedReq == <<" ", "w">>           \* " w": non-blank, with leading whitespace

Requirements == {SpacesReq, LogicReq}

-----------------------------------------------------------------------------
(* create_prompt: a prompt is the sequence of the parts of its f-string:   *)
(* the literal pieces of the template and the values embedded between      *)
(* them.  Language "Chinese" stands for the source's Chinese-language      *)
(* literal; every other value takes the English branch.                    *)

Lit(name) == <<"lit", name>>
TextPart(text) == <<"text", text>>
ReqPart(requirement) == <<"requirement", requirement>>

\* CreatePrompt that takes the English branch for "English" only
CreatePromptEnglishOnly(text, language, check_type, custom_requirement) ==
    IF language # "English"
    THEN IF check_type = "grammar"
         THEN <<Lit("zh_grammar_head"), TextPart(text),
                Lit("zh_answer_in_chinese"), Lit("zh_sentinel_grammar_correct"),
                Lit("zh_else_point_out")>>
         ELSE <<Lit("zh_check_head"), ReqPart(custom_requirement),
                TextPart(text), Lit("zh_evaluate_in_chinese")>>
    ELSE IF check_type = "grammar"
         THEN <<Lit("en_grammar_head"), TextPart(text),
                Lit("en_respond_in_english"), Lit("en_sentinel_grammar_is_correct"),
                Lit("en_else_point_out")>>
         ELSE <<Lit("en_check_head"), ReqPart(custom_requirement),
                TextPart(text), Lit("en_evaluate_in_english")>>
CreatePrompt(text, language, check_type, custom_requirement) ==
    IF language = "Chinese"
    THEN IF check_type = "grammar"
         THEN <<Lit("zh_grammar_head"), TextPart(text),
                Lit("zh_answer_in_chinese"), Lit("zh_sentinel_grammar_correct"),
                Lit("zh_else_point_out")>>
         ELSE <<Lit("zh_check_head"), ReqPart(custom_requirement),
                TextPart(text), Lit("zh_evaluate_in_chinese")>>
    ELSE IF check_type = "grammar"
         THEN <<Lit("en_grammar_head"), TextPart(text),
                Lit("en_respond_in_english"), Lit("en_sentinel_grammar_is_correct"),
                Lit("en_else_point_out")>>
         ELSE <<Lit("en_check_head"), ReqPart(custom_requirement),
                TextPart(text), Lit("en_evaluate_in_english")>>

-----------------------------------------------------------------------------
(* Values call_ai_api returns *)

\* response.choices[0].message.content.strip(): the backend's answer to p
Reply(p) == <<"reply", p>>

\* f"API_CALL_FAILED: {str(e)}" (the source's marker is in Chinese)
FailureString(e) == <<"API_CALL_FAILED", e>>

\* the value of a call whose for loop ends without returning
None == <<"None">>

\* the exception litellm.completion raises in the iteration with loop variable
\* a: every raise is an exception of its own, named by the attempt it ended
Raised(a) == <<"error_of_attempt", a + 1>>

\* CaughtError that keeps the exception of the first attempt
FirstError(raised) == raised[1]

\* the exception the except clause holds when it returns: the one just raised
CaughtError(raised) == raised[Len(raised)]

\* RetryAgain that gives up one attempt early
RetryAgainOneLess(a, max_retries) == a + 2 < max_retries

\* "if attempt < max_retries - 1": sleep and try again, else return the marker
RetryAgain(a, max_retries) == a + 1 < max_retries

-----------------------------------------------------------------------------
(* Rows: Python dicts keep insertion order; assignment to an existing key  *)
(* replaces its value in place.                                            *)

Keys(d) == {d[k][1] : k \in 1..Len(d)}

\* DictSet that drops the value of a failed call instead of storing it
DictSetUnlessFailed(d, key, val) ==
    IF val[1] = "API_CALL_FAILED" THEN d
    ELSE IF key \in Keys(d)
         THEN [k \in 1..Len(d) |-> IF d[k][1] = key THEN <<key, val>> ELSE d[k]]
         ELSE Append(d, <<key, val>>)

DictSet(d, key, val) ==
    IF key \in Keys(d)
    THEN [k \in 1..Len(d) |-> IF d[k][1] = key THEN <<key, val>> ELSE d[k]]
    ELSE Append(d, <<key, val>>)

DictGet(d, key) == d[CHOOSE k \in 1..Len(d) : d[k][1] = key][2]

\* ListAppend that inserts at the front
ListPrepend(list, x) == <<x>> \o list

\* list.append
ListAppend(list, x) == Append(list, x)

OriginalKey == <<"original_text", 0>>   \* the source's key for the paragraph
GrammarKey == <<"grammar_check", 0>>    \* the source's key for the grammar check

\* AdditionalKey numbered by a counter of the non-blank entries up to jj
AdditionalKeySequential(jj) ==
    <<"additional_check",
      Cardinality({q \in 1..(jj + 1) : StripTruthy(config.additional_checks[q])})>>

\* AdditionalKey numbered from the end of additional_checks
AdditionalKeyFromEnd(jj) == <<"additional_check", Len(config.additional_checks) - jj>>

\* f"<additional check>_{j+1}"
AdditionalKey(jj) == <<"additional_check", jj + 1>>

-----------------------------------------------------------------------------
(* Inputs *)

\* a document of n paragraphs with pairwise different texts
Document(n) == [k \in 1..n |-> k]

SeqsUpTo(S, n) == UNION {[1..m -> S] : m \in 0..n}

Config(key, retries, delay, interval, checks, language) ==
    [provider |-> "openai", model |-> "gpt-3.5-turbo", api_key |-> key,
     language |-> language, additional_checks |-> checks,
     session_refresh_interval |-> interval, max_retries |-> retries,
     retry_delay |-> delay]

\* short documents: every combination of credential, max_retries, interval
\* 0 or 1 and list of blank and non-blank requirements
GeneralInputs ==
    {<<Document(n), Config(key, r, DefaultRetryDelay, iv, cs, "Chinese")>> :
        n \in 0..MaxParas, key \in {"", "sk"}, r \in 0..MaxRetries,
        iv \in {0, 1}, cs \in SeqsUpTo(Requirements, MaxChecks)}

\* long documents under the default retry policy: session refresh pacing
PacingInputs ==
    {<<Document(n), Config("sk", r, d, iv, <<>>, "Chinese")>> :
        n \in 0..LongParas, r \in {1, DefaultMaxRetries},
        d \in {0, DefaultRetryDelay}, iv \in 0..DefaultInterval}

\* mixed blank and non-blank requirements, both languages, a repeated text
ChecksInputs ==
    {<<ps, Config("sk", r, DefaultRetryDelay, DefaultInterval, cs, lang)>> :
        ps \in {Document(1), Document(2), <<1, 1>>},
        r \in {1, 2},
        cs \in {<<EmptyReq, LogicReq, SpacesReq>>,
                <<LogicReq, EmptyReq, PaddedReq>>,
                <<PaddedReq, LogicReq, LogicReq>>,
                <<EmptyReq, SpacesReq>>},
        lang \in {"Chinese", "English"}}

Inputs == GeneralInputs \cup PacingInputs \cup ChecksInputs

-----------------------------------------------------------------------------
(* State after the call of process_paragraphs, lines 94-97 *)

\* os.path.exists(path) is False
Absent == <<"absent">>

\* main has not constructed a GrammarChecker (yet)
NoChecker == [constructed |-> FALSE]

\* no exception was raised
NoException == [type |-> "none"]

\* process_paragraphs has not been called before
NoOutcome == <<"no_outcome">>

\* create_prompt is not called on its own
NoArguments ==
    [text |-> 0, language |-> "", check_type |-> "", custom_requirement |-> <<>>]

CreatePromptIdle ==
    /\ create_prompt_args = NoArguments
    /\ create_prompt_returns = <<>>

\* st.file_uploader (app.py, lines 367-371) returns None, or the uploaded
\* file: a document with the paragraphs ps
NoUpload == [uploaded |-> FALSE, paragraphs |-> <<>>]
Upload(ps) == [uploaded |-> TRUE, paragraphs |-> ps]

\* the Streamlit program is not running
StreamlitIdle ==
    /\ uploaded_file = NoUpload
    /\ session_state = <<>>
    /\ st_pc = "idle"
    /\ st_paragraphs = <<>>
    /\ st_config = <<>>
    /\ st_i = 0
    /\ st_j = 0
    /\ result_row = <<>>
    /\ st_results = <<>>
    /\ st_progress_bar = <<0, 1>>
    /\ status_text = <<>>
    /\ st_completions = <<>>
    /\ st_faults = 0
    /\ st_sleeps = [backoff |-> 0, refresh |-> 0, throttle |-> 0]
    /\ st_clock = 0
    /\ st_exc = "none"
    /\ st_error = <<>>
    /\ result_df = None

\* a .docx file as python-docx sees it: Document(path) raises, or
\* doc.paragraphs has the texts raw, each a sequence of characters
Unreadable == [readable |-> FALSE, raw |-> <<>>]
Docx(raw) == [readable |-> TRUE, raw |-> raw]

\* no reader has been called
ReaderIdle ==
    /\ word_file = Unreadable
    /\ reader = "none"

\* the desktop program is not running
DesktopIdle ==
    /\ current_paragraphs = <<>>
    /\ form = <<>>
    /\ start_btn = FALSE
    /\ progress_bar = [visible |-> FALSE, value |-> 0]
    /\ status_label = [visible |-> FALSE, text |-> <<>>]
    /\ dialog = <<>>
    /\ saved = <<>>
    /\ processing_thread = "none"
    /\ signals = <<>>
    /\ same_list = FALSE

\* the command line program is not running
CliIdle ==
    /\ files = <<>>
    /\ config_path = ""
    /\ word_paragraphs = <<>>
    /\ main_pc = "idle"
    /\ checker = NoChecker
    /\ caught = NoException
    /\ cli_i = 0
    /\ cli_k = 0
    /\ result = <<>>
    /\ cli_results = <<>>
    /\ main_exc = "none"
    /\ cli_sleeps = 0
    /\ printed = <<>>
    /\ word_files = <<>>
    /\ batch_i = 0

InitWith(callbacks) ==
    /\ CliIdle
    /\ DesktopIdle
    /\ CreatePromptIdle
    /\ StreamlitIdle
    /\ ReaderIdle
    /\ \E inp \in Inputs :
        /\ paragraphs = inp[1]
        /\ config = inp[2]
    /\ progress_callback \in callbacks
    /\ pc = "for"
    /\ i = 0
    /\ j = 0
    /\ row = <<>>
    /\ results = <<>>
    /\ prompt = <<>>
    /\ target = <<>>
    /\ attempt = 0
    /\ errs = <<>>
    /\ tries = 0
    /\ naps = <<>>
    /\ ret = None
    /\ exc = "none"
    /\ exc_message = <<>>
    /\ calls = 0
    /\ faults = 0
    /\ sleeps = [backoff |-> 0, refresh |-> 0, throttle |-> 0]
    /\ clock = 0
    /\ refreshed = {}
    /\ notes = <<>>
    /\ answers = {}
    /\ run = 1
    /\ previous = NoOutcome

Init == InitWith({"none", "ok"}) /\ backend = "any"

total == Len(paragraphs)
additional_checks == config.additional_checks
interval == config.session_refresh_interval
paragraph == paragraphs[i + 1]

\* time.sleep(d) at the call site named site
Sleep(site, d) ==
    /\ sleeps' = [sleeps EXCEPT ![site] = @ + 1]
    /\ clock' = clock + d

NoSleep == UNCHANGED <<sleeps, clock>>

\* BackoffDelay that doubles with every attempt
BackoffDelayExponential(a, retry_delay) == retry_delay * 2 ^ a

\* line 71: time.sleep(retry_delay) after the failed attempt a (0-based)
BackoffDelay(a, retry_delay) == retry_delay

\* ShouldRefresh without "i > 0"
ShouldRefreshFromZero(ii, iv) == iv # 0 /\ ii % iv = 0

\* "if i > 0 and interval and i % interval == 0"
ShouldRefresh(ii, iv) == ii > 0 /\ iv # 0 /\ ii % iv = 0

-----------------------------------------------------------------------------
(* process_paragraphs, lines 98-133, and call_ai_api, lines 51-73 *)

\* Notification that reports the 1-based position
NotificationOneBased(kind) == <<i + 1, total, <<kind, i + 1, total>>>>

\* the call of progress_callback with (i, total, message); message is the
\* kind of notification with the i+1 and total it formats
Notification(kind) == <<i, total, <<kind, i + 1, total>>>>

\* AfterProgress that refreshes before the first paragraph as well
AfterProgressFromZero ==
    IF interval # 0 /\ i % interval = 0 THEN "refresh" ELSE "grammar"
AfterProgress == IF ShouldRefresh(i, interval) THEN "refresh" ELSE "grammar"

-----------------------------------------------------------------------------
(* Python float arithmetic (IEEE 754 binary64, round to nearest, ties to   *)
(* even) on the values line 56 of src/desktop_app.py computes.  The 53     *)
(* bits of a significand are kept in four limbs, of 1, 18, 17 and 17 bits: *)
(* the float [top, high, mid, low, places] is the number                   *)
(* (top * 2^52 + high * 2^34 + mid * 2^17 + low) / 2^places                *)

SignificandBits == 53
Limb == 2 ^ 17
HighLimb == 2 ^ 18

\* f plus one unit in its last place, the carries going up the limbs
PlusOne(f) ==
    IF f.low + 1 < Limb THEN [f EXCEPT !.low = @ + 1]
    ELSE IF f.mid + 1 < Limb THEN [f EXCEPT !.low = 0, !.mid = @ + 1]
    ELSE IF f.high + 1 < HighLimb
    THEN [f EXCEPT !.low = 0, !.mid = 0, !.high = @ + 1]
    ELSE [f EXCEPT !.low = 0, !.mid = 0, !.high = 0, !.top = @ + 1]

\* numer / denom for integers 1 <= numer <= denom < 2^11: the quotient is
\* shifted into [1, 2), its 52 fraction bits come from long division, limb
\* by limb, and the bit after them and the remainder decide the rounding.
\* A carry out of the limbs makes the significand 2^53: one place less
FloatDivide(numer, denom) ==
    LET shift == CHOOSE s \in 0..11 :
                    /\ numer * 2 ^ s >= denom
                    /\ \A r \in 0..(s - 1) : numer * 2 ^ r < denom
        r0 == numer * 2 ^ shift - denom
        r1 == (r0 * HighLimb) % denom
        r2 == (r1 * Limb) % denom
        r3 == (r2 * Limb) % denom
        f == [top |-> 1,
              high |-> (r0 * HighLimb) \div denom,
              mid |-> (r1 * Limb) \div denom,
              low |-> (r2 * Limb) \div denom,
              places |-> SignificandBits - 1 + shift]
        half == (2 * r3) \div denom = 1
        more == (2 * r3) % denom # 0
        sum == PlusOne(f)
    IN IF ~(half /\ (more \/ f.low % 2 = 1)) THEN f
       ELSE IF sum.top = 1 THEN sum
       ELSE [sum EXCEPT !.top = 1, !.places = @ - 1]

\* f * c for a float f with top = 1 and an integer c in 1..8191: the exact
\* product, limb by limb from the last one, rounded to the 53 bits that
\* begin with the first bit of its top limb
FloatTimes(f, c) ==
    LET pl == c * f.low
        pm == c * f.mid + pl \div Limb
        ph == c * f.high + pm \div Limb
        pt == c * f.top + ph \div HighLimb
        d == CHOOSE n \in 0..13 : 2 ^ n <= pt /\ pt < 2 ^ (n + 1)
        dropped == (pl % Limb) % 2 ^ d
        odd == ((pl % Limb) \div 2 ^ d) % 2 = 1
        up == 2 * dropped > 2 ^ d \/ (2 * dropped = 2 ^ d /\ odd)
        kept == [top |-> pt, high |-> ph % HighLimb, mid |-> pm % Limb,
                 low |-> (pl % Limb) - dropped, places |-> f.places]
    IN IF ~up THEN kept
       ELSE IF kept.low + 2 ^ d < Limb THEN [kept EXCEPT !.low = @ + 2 ^ d]
       ELSE PlusOne([kept EXCEPT !.low = Limb - 1])

\* int(f) for a float f >= 0 with at least 52 places: the limbs below top
\* are its fraction
IntOfFloat(f) == f.top \div 2 ^ (f.places - (SignificandBits - 1))

\* Progress that truncates the quotient before it multiplies:
\* int((i + 1) / total) * 100
ProgressTruncatedFirst(ii, tt) == IntOfFloat(FloatDivide(ii + 1, tt)) * 100

\* desktop_app.py line 56: int((i + 1) / total * 100), the quotient being
\* a float before it is multiplied
Progress(ii, tt) ==
    CHOOSE percent \in {IntOfFloat(FloatTimes(quotient, 100)) :
                           quotient \in {FloatDivide(ii + 1, tt)}} : TRUE

\* desktop_app.py lines 55-57, the callback of ProcessingThread.run:
\* progress_updated.emit(int((i + 1) / total * 100), message), for the call
\* of the callback with the arguments note
ProgressUpdated(note) ==
    <<"progress_updated", Progress(note[1], note[2]), note[3]>>

\* NotifyProgress without "if progress_callback": None is called
NotifyProgressUnguarded ==
    /\ pc = "for"
    /\ i < total
    /\ notes' = IF progress_callback = "none" THEN notes
                ELSE Append(notes, Notification("processing"))
    /\ pc' = IF progress_callback = "none" THEN "raised" ELSE AfterProgress
    /\ exc' = IF progress_callback = "none" THEN "TypeError" ELSE exc
    /\ exc_message' = IF progress_callback = "none"
                      THEN <<Lit("NoneType_object_is_not_callable")>>
                      ELSE exc_message
    /\ signals' = IF progress_callback = "emit"
                  THEN Append(signals, ProgressUpdated(Notification("processing")))
                  ELSE signals
    /\ UNCHANGED <<naps, cliVars, uiVars, processing_thread, rerunVars, answers>>
    /\ UNCHANGED <<paragraphs, config, progress_callback, i, j, row, results,
                   prompt, target, attempt, errs, tries, ret, calls, faults,
                   sleeps, clock, refreshed>>
    /\ UNCHANGED <<createPromptVars, streamlitVars, readerVars>>
    /\ UNCHANGED same_list

\* lines 98-100: the next paragraph and its progress notification
NotifyProgress ==
    /\ pc = "for"
    /\ i < total
    /\ notes' = IF progress_callback = "none" THEN notes
                ELSE Append(notes, Notification("processing"))
    /\ pc' = AfterProgress
    /\ signals' = IF progress_callback = "emit"
                  THEN Append(signals, ProgressUpdated(Notification("processing")))
                  ELSE signals
    /\ UNCHANGED <<naps, cliVars, uiVars, processing_thread, rerunVars, answers,
                   exc_message>>
    /\ UNCHANGED <<paragraphs, config, progress_callback, i, j, row, results,
                   prompt, target, attempt, errs, tries, ret, exc, calls, faults,
                   sleeps, clock, refreshed>>
    /\ UNCHANGED <<createPromptVars, streamlitVars, readerVars>>
    /\ UNCHANGED same_list

\* lines 102-103: the refresh notification
NotifyRefresh ==
    /\ pc = "refresh"
    /\ notes' = IF progress_callback = "none" THEN notes
                ELSE Append(notes, Notification("refreshing"))
    /\ pc' = "pause"
    /\ signals' = IF progress_callback = "emit"
                  THEN Append(signals, ProgressUpdated(Notification("refreshing")))
                  ELSE signals
    /\ UNCHANGED <<naps, cliVars, uiVars, processing_thread, rerunVars, answers,
                   exc_message>>
    /\ UNCHANGED <<paragraphs, config, progress_callback, i, j, row, results,
                   prompt, target, attempt, errs, tries, ret, exc, calls, faults,
                   sleeps, clock, refreshed>>
    /\ UNCHANGED <<createPromptVars, streamlitVars, readerVars>>
    /\ UNCHANGED same_list

\* RefreshPause that sleeps for retry_delay
RefreshPauseOfRetryDelay ==
    /\ pc = "pause"
    /\ Sleep("refresh", config.retry_delay)
    /\ refreshed' = refreshed \cup {i}
    /\ pc' = "grammar"
    /\ UNCHANGED <<naps, cliVars, desktopVars, rerunVars, answers, exc_message>>
    /\ UNCHANGED <<paragraphs, config, progress_callback, i, j, row, results,
                   prompt, target, attempt, errs, tries, ret, exc, calls, faults,
                   notes>>
    /\ UNCHANGED <<createPromptVars, streamlitVars, readerVars>>

\* line 104: time.sleep(1)
RefreshPause ==
    /\ pc = "pause"
    /\ Sleep("refresh", RefreshDelay)
    /\ refreshed' = refreshed \cup {i}
    /\ pc' = "grammar"
    /\ UNCHANGED <<naps, cliVars, desktopVars, rerunVars, answers, exc_message>>
    /\ UNCHANGED <<paragraphs, config, progress_callback, i, j, row, results,
                   prompt, target, attempt, errs, tries, ret, exc, calls, faults,
                   notes>>
    /\ UNCHANGED <<createPromptVars, streamlitVars, readerVars>>

\* progress_callback raises: process_paragraphs has no handler around it
CallbackRaises ==
    /\ progress_callback = "raising"
    /\ \/ pc = "for" /\ i < total
       \/ pc = "refresh"
    /\ pc' = "raised"
    /\ exc' = "CallbackError"
    /\ exc_message' = <<Lit("message_of_the_callback")>>
    /\ UNCHANGED <<naps, cliVars, desktopVars, rerunVars, answers>>
    /\ UNCHANGED <<paragraphs, config, progress_callback, i, j, row, results,
                   prompt, target, attempt, errs, tries, ret, calls, faults, sleeps,
                   clock, refreshed, notes>>
    /\ UNCHANGED <<createPromptVars, streamlitVars, readerVars>>

\* line 54: the argument of ValueError; in English, "the API key must not
\* be empty"
ApiKeyEmptyMessage == <<Lit("zh_api_key_must_not_be_empty")>>

\* EnterCall without the check of api_key
EnterCallUnchecked(p, key) ==
    /\ prompt' = p
    /\ target' = key
    /\ attempt' = 0
    /\ errs' = <<>>
    /\ tries' = 0
    /\ naps' = <<>>
    /\ pc' = "try"
    /\ UNCHANGED <<exc, exc_message>>

\* call_ai_api(p, ...) whose value is to be assigned to row[key]:
\* lines 53-54, then the first iteration of the loop of line 56
EnterCall(p, key) ==
    /\ prompt' = p
    /\ target' = key
    /\ attempt' = 0
    /\ errs' = <<>>
    /\ tries' = 0
    /\ naps' = <<>>
    /\ IF config.api_key = ""
       THEN /\ pc' = "raised"
            /\ exc' = "ValueError"
            /\ exc_message' = ApiKeyEmptyMessage
       ELSE /\ pc' = "try"
            /\ UNCHANGED <<exc, exc_message>>

\* lines 105-114: the row and the grammar check
GrammarCheck ==
    /\ pc = "grammar"
    /\ row' = <<<<OriginalKey, paragraph>>>>
    /\ EnterCall(CreatePrompt(paragraph, config.language, "grammar", <<>>),
                 GrammarKey)
    /\ UNCHANGED <<cliVars, desktopVars, rerunVars, answers>>
    /\ UNCHANGED <<paragraphs, config, progress_callback, i, j, results, ret,
                   calls, faults, sleeps, clock, refreshed, notes>>
    /\ UNCHANGED <<createPromptVars, streamlitVars, readerVars>>

\* a deterministic backend has answered the prompt p at attempt a with o
Answered(p, a, o) == <<p, a, o>> \in answers

\* the backend may answer the prompt p at attempt a with o: any backend
\* may, a deterministic one unless it has answered otherwise before
Admits(p, a, o) ==
    IF backend = "any" THEN TRUE
    ELSE \A x \in answers : (x[1] = p /\ x[2] = a) => x[3] = o

\* a deterministic backend has now answered p at attempt a with o
Learn(p, a, o) ==
    answers' = IF backend = "any" THEN answers ELSE answers \cup {<<p, a, o>>}

\* lines 62-68: litellm.completion answers
CompletionSucceeds ==
    /\ pc = "try"
    /\ attempt < config.max_retries
    /\ Admits(prompt, attempt, "response")
    /\ Learn(prompt, attempt, "response")
    /\ calls' = calls + 1
    /\ tries' = tries + 1
    /\ ret' = Reply(prompt)
    /\ pc' = "ret"
    /\ UNCHANGED <<naps, cliVars, desktopVars, rerunVars, exc_message>>
    /\ UNCHANGED <<paragraphs, config, progress_callback, i, j, row, results,
                   prompt, target, attempt, errs, exc, faults, sleeps, clock,
                   refreshed, notes>>
    /\ UNCHANGED <<createPromptVars, streamlitVars, readerVars>>

\* CompletionFails whose last attempt lets the exception escape
CompletionFailsRaising ==
    /\ pc = "try"
    /\ attempt < config.max_retries
    /\ ~Answered(prompt, attempt, "failure") => faults < MaxFaults
    /\ Admits(prompt, attempt, "failure")
    /\ Learn(prompt, attempt, "failure")
    /\ calls' = calls + 1
    /\ tries' = tries + 1
    /\ faults' = faults + 1
    /\ errs' = Append(errs, Raised(attempt))
    /\ IF attempt + 1 < config.max_retries
       THEN /\ Sleep("backoff", BackoffDelay(attempt, config.retry_delay))
            /\ naps' = Append(naps, BackoffDelay(attempt, config.retry_delay))
            /\ attempt' = attempt + 1
            /\ UNCHANGED <<ret, pc, exc, exc_message>>
       ELSE /\ pc' = "raised"
            /\ exc' = "BackendError"
            /\ exc_message' = <<errs'[Len(errs')]>>
            /\ NoSleep
            /\ UNCHANGED <<ret, attempt, naps>>
    /\ UNCHANGED <<cliVars, desktopVars, rerunVars>>
    /\ UNCHANGED <<paragraphs, config, progress_callback, i, j, row, results,
                   prompt, target, refreshed, notes>>
    /\ UNCHANGED <<createPromptVars, streamlitVars, readerVars>>

\* lines 62-73: litellm.completion raises
CompletionFails ==
    /\ pc = "try"
    /\ attempt < config.max_retries
    /\ ~Answered(prompt, attempt, "failure") => faults < MaxFaults
    /\ Admits(prompt, attempt, "failure")
    /\ Learn(prompt, attempt, "failure")
    /\ calls' = calls + 1
    /\ tries' = tries + 1
    /\ faults' = faults + 1
    /\ errs' = Append(errs, Raised(attempt))
    /\ IF RetryAgain(attempt, config.max_retries)
       THEN /\ Sleep("backoff", BackoffDelay(attempt, config.retry_delay))
            /\ naps' = Append(naps, BackoffDelay(attempt, config.retry_delay))
            /\ attempt' = attempt + 1
            /\ UNCHANGED <<ret, pc>>
       ELSE /\ ret' = FailureString(CaughtError(errs'))
            /\ pc' = "ret"
            /\ NoSleep
            /\ UNCHANGED <<attempt, naps>>
    /\ UNCHANGED <<cliVars, desktopVars, rerunVars, exc_message>>
    /\ UNCHANGED <<paragraphs, config, progress_callback, i, j, row, results,
                   prompt, target, exc, refreshed, notes>>
    /\ UNCHANGED <<createPromptVars, streamlitVars, readerVars>>

\* LoopFallsThrough that returns the failure marker instead of nothing
LoopFallsThroughWithMarker ==
    /\ pc = "try"
    /\ attempt >= config.max_retries
    /\ ret' = FailureString(<<"no_attempt">>)
    /\ pc' = "ret"
    /\ UNCHANGED <<naps, cliVars, desktopVars, rerunVars, answers, exc_message>>
    /\ UNCHANGED <<paragraphs, config, progress_callback, i, j, row, results,
                   prompt, target, attempt, errs, tries, exc, calls, faults, sleeps,
                   clock, refreshed, notes>>
    /\ UNCHANGED <<createPromptVars, streamlitVars, readerVars>>

\* line 56 with nothing left in range(max_retries): the function ends
\* without a return statement
LoopFallsThrough ==
    /\ pc = "try"
    /\ attempt >= config.max_retries
    /\ ret' = None
    /\ pc' = "ret"
    /\ UNCHANGED <<naps, cliVars, desktopVars, rerunVars, answers, exc_message>>
    /\ UNCHANGED <<paragraphs, config, progress_callback, i, j, row, results,
                   prompt, target, attempt, errs, tries, exc, calls, faults, sleeps,
                   clock, refreshed, notes>>
    /\ UNCHANGED <<createPromptVars, streamlitVars, readerVars>>

\* lines 107 and 123: the assignment of the returned value to row[target]
StoreResult ==
    /\ pc = "ret"
    /\ row' = DictSet(row, target, ret)
    /\ j' = IF target = GrammarKey THEN 0 ELSE j + 1
    /\ pc' = "additional"
    /\ UNCHANGED <<naps, cliVars, desktopVars, rerunVars, answers, exc_message>>
    /\ UNCHANGED <<paragraphs, config, progress_callback, i, results, prompt,
                   target, attempt, errs, tries, ret, exc, calls, faults, sleeps,
                   clock, refreshed, notes>>
    /\ UNCHANGED <<createPromptVars, streamlitVars, readerVars>>

\* lines 115-130: one entry of additional_checks
AdditionalCheck ==
    /\ pc = "additional"
    /\ j < Len(additional_checks)
    /\ LET check == additional_checks[j + 1] IN
       IF StripTruthy(check)
       THEN /\ EnterCall(CreatePrompt(paragraph, config.language,
                                      "additional", check),
                         AdditionalKey(j))
            /\ UNCHANGED j
       ELSE /\ j' = j + 1
            /\ UNCHANGED <<pc, prompt, target, attempt, errs, tries, naps,
                           exc, exc_message>>
    /\ UNCHANGED <<cliVars, desktopVars, rerunVars, answers>>
    /\ UNCHANGED <<paragraphs, config, progress_callback, i, row, results, ret,
                   calls, faults, sleeps, clock, refreshed, notes>>
    /\ UNCHANGED <<createPromptVars, streamlitVars, readerVars>>

\* AppendRow that does not wait for the end of the additional checks
AppendRowEarly ==
    /\ pc = "additional"
    /\ j <= Len(additional_checks)
    /\ results' = ListAppend(results, row)
    /\ pc' = "throttle"
    /\ UNCHANGED <<naps, cliVars, desktopVars, rerunVars, answers, exc_message>>
    /\ UNCHANGED <<paragraphs, config, progress_callback, i, j, row, prompt,
                   target, attempt, errs, tries, ret, exc, calls, faults, sleeps,
                   clock, refreshed, notes>>
    /\ UNCHANGED <<createPromptVars, streamlitVars, readerVars>>

\* line 131: results.append(row)
AppendRow ==
    /\ pc = "additional"
    /\ j = Len(additional_checks)
    /\ results' = ListAppend(results, row)
    /\ pc' = "throttle"
    /\ UNCHANGED <<naps, cliVars, desktopVars, rerunVars, answers, exc_message>>
    /\ UNCHANGED <<paragraphs, config, progress_callback, i, j, row, prompt,
                   target, attempt, errs, tries, ret, exc, calls, faults, sleeps,
                   clock, refreshed, notes>>
    /\ UNCHANGED <<createPromptVars, streamlitVars, readerVars>>

\* Throttle that pauses between paragraphs only, not after the last one
ThrottleUnlessLast ==
    /\ pc = "throttle"
    /\ IF i + 1 < total THEN Sleep("throttle", ThrottleDelay) ELSE NoSleep
    /\ i' = i + 1
    /\ pc' = "for"
    /\ UNCHANGED <<naps, cliVars, desktopVars, rerunVars, answers, exc_message>>
    /\ UNCHANGED <<paragraphs, config, progress_callback, j, row, results,
                   prompt, target, attempt, errs, tries, ret, exc, calls, faults,
                   refreshed, notes>>
    /\ UNCHANGED <<createPromptVars, streamlitVars, readerVars>>

\* line 132: time.sleep(0.5), and on to the next paragraph
Throttle ==
    /\ pc = "throttle"
    /\ Sleep("throttle", ThrottleDelay)
    /\ i' = i + 1
    /\ pc' = "for"
    /\ UNCHANGED <<naps, cliVars, desktopVars, rerunVars, answers, exc_message>>
    /\ UNCHANGED <<paragraphs, config, progress_callback, j, row, results,
                   prompt, target, attempt, errs, tries, ret, exc, calls, faults,
                   refreshed, notes>>
    /\ UNCHANGED <<createPromptVars, streamlitVars, readerVars>>

\* ReturnResults with the pause of line 132 after the loop
ReturnResultsAfterPause ==
    /\ pc = "for"
    /\ i = total
    /\ Sleep("throttle", ThrottleDelay)
    /\ pc' = "done"
    /\ UNCHANGED <<naps, cliVars, desktopVars, rerunVars, answers, exc_message>>
    /\ UNCHANGED <<paragraphs, config, progress_callback, i, j, row, results,
                   prompt, target, attempt, errs, tries, ret, exc, calls, faults,
                   refreshed, notes>>
    /\ UNCHANGED <<createPromptVars, streamlitVars, readerVars>>

\* ReturnResults that waits for an index past the end of the list
ReturnResultsPastTheEnd ==
    /\ pc = "for"
    /\ i > total
    /\ pc' = "done"
    /\ UNCHANGED <<naps, cliVars, desktopVars, rerunVars, answers, exc_message>>
    /\ UNCHANGED <<paragraphs, config, progress_callback, i, j, row, results,
                   prompt, target, attempt, errs, tries, ret, exc, calls, faults,
                   sleeps, clock, refreshed, notes>>
    /\ UNCHANGED <<createPromptVars, streamlitVars, readerVars>>

\* line 133: return results
ReturnResults ==
    /\ pc = "for"
    /\ i = total
    /\ pc' = "done"
    /\ UNCHANGED <<naps, cliVars, desktopVars, rerunVars, answers, exc_message>>
    /\ UNCHANGED <<paragraphs, config, progress_callback, i, j, row, results,
                   prompt, target, attempt, errs, tries, ret, exc, calls, faults,
                   sleeps, clock, refreshed, notes>>
    /\ UNCHANGED <<createPromptVars, streamlitVars, readerVars>>

Next ==
    \/ NotifyProgress
    \/ NotifyRefresh
    \/ RefreshPause
    \/ GrammarCheck
    \/ CompletionSucceeds
    \/ CompletionFails
    \/ LoopFallsThrough
    \/ StoreResult
    \/ AdditionalCheck
    \/ AppendRow
    \/ Throttle
    \/ ReturnResults

Spec == Init /\ [][Next]_vars

\* the same program, on the assumption that every statement, every
\* time.sleep and every litellm.completion call comes to an end
SpecFair == Spec /\ WF_vars(Next)

\* the same program called with a progress callback that may raise
InitRaising == InitWith({"none", "ok", "raising"}) /\ backend = "any"

NextRaising == Next \/ CallbackRaises

SpecRaising == InitRaising /\ [][NextRaising]_vars

-----------------------------------------------------------------------------
(* process_paragraphs called a second time with the same arguments and a   *)
(* backend that is deterministic in the prompt and the attempt number      *)

\* how the current call has ended
Outcome ==
    IF pc = "done" THEN <<"returned", results>>
    ELSE <<"raised", exc, exc_message>>

\* RunAgain with a list results that outlives the call
RunAgainKeepingResults ==
    /\ pc \in {"done", "raised"}
    /\ run = 1
    /\ previous' = Outcome
    /\ run' = 2
    /\ pc' = "for"
    /\ i' = 0
    /\ j' = 0
    /\ row' = <<>>
    /\ prompt' = <<>>
    /\ target' = <<>>
    /\ attempt' = 0
    /\ errs' = <<>>
    /\ tries' = 0
    /\ naps' = <<>>
    /\ ret' = None
    /\ exc' = "none"
    /\ exc_message' = <<>>
    /\ calls' = 0
    /\ faults' = 0
    /\ sleeps' = [backoff |-> 0, refresh |-> 0, throttle |-> 0]
    /\ clock' = 0
    /\ refreshed' = {}
    /\ notes' = <<>>
    /\ UNCHANGED <<paragraphs, config, progress_callback, results, backend,
                   answers, cliVars, desktopVars>>
    /\ UNCHANGED <<createPromptVars, streamlitVars, readerVars>>

\* the caller calls process_paragraphs again with the same paragraphs,
\* config and progress_callback: lines 94-97 once more
RunAgain ==
    /\ pc \in {"done", "raised"}
    /\ run = 1
    /\ previous' = Outcome
    /\ run' = 2
    /\ pc' = "for"
    /\ i' = 0
    /\ j' = 0
    /\ row' = <<>>
    /\ results' = <<>>
    /\ prompt' = <<>>
    /\ target' = <<>>
    /\ attempt' = 0
    /\ errs' = <<>>
    /\ tries' = 0
    /\ naps' = <<>>
    /\ ret' = None
    /\ exc' = "none"
    /\ exc_message' = <<>>
    /\ calls' = 0
    /\ faults' = 0
    /\ sleeps' = [backoff |-> 0, refresh |-> 0, throttle |-> 0]
    /\ clock' = 0
    /\ refreshed' = {}
    /\ notes' = <<>>
    /\ UNCHANGED <<paragraphs, config, progress_callback, backend, answers,
                   cliVars, desktopVars>>
    /\ UNCHANGED <<createPromptVars, streamlitVars, readerVars>>

\* the documents of at most MaxParas paragraphs
InitTwice ==
    /\ InitWith({"none", "ok"})
    /\ backend = "deterministic"
    /\ Len(paragraphs) <= MaxParas

NextTwice == Next \/ RunAgain

SpecTwice == InitTwice /\ [][NextTwice]_vars

-----------------------------------------------------------------------------
(* process_paragraphs called a second time with the same paragraphs and    *)
(* config and the same deterministic backend, but with the other           *)
(* progress_callback: without one after a call with one that returns, and  *)
(* the other way round                                                     *)

\* what a call has done by its end: its outcome, its completion calls and
\* what the backend was asked, its pauses by call site and their total
Footprint == <<Outcome, calls, answers, sleeps, clock>>

\* lines 94-97 once more, with the other progress_callback argument
RunAgainOtherCallback ==
    /\ pc \in {"done", "raised"}
    /\ run = 1
    /\ previous' = Footprint
    /\ run' = 2
    /\ progress_callback' = IF progress_callback = "none" THEN "ok" ELSE "none"
    /\ pc' = "for"
    /\ i' = 0
    /\ j' = 0
    /\ row' = <<>>
    /\ results' = <<>>
    /\ prompt' = <<>>
    /\ target' = <<>>
    /\ attempt' = 0
    /\ errs' = <<>>
    /\ tries' = 0
    /\ naps' = <<>>
    /\ ret' = None
    /\ exc' = "none"
    /\ exc_message' = <<>>
    /\ calls' = 0
    /\ faults' = 0
    /\ sleeps' = [backoff |-> 0, refresh |-> 0, throttle |-> 0]
    /\ clock' = 0
    /\ refreshed' = {}
    /\ notes' = <<>>
    /\ UNCHANGED <<paragraphs, config, backend, answers, cliVars, desktopVars>>
    /\ UNCHANGED <<createPromptVars, streamlitVars, readerVars>>

NextOtherCallback == Next \/ RunAgainOtherCallback

SpecOtherCallback == InitTwice /\ [][NextOtherCallback]_vars

-----------------------------------------------------------------------------
(* The command line program, src/grammar_checker.py: configuration file *)

\* Python values of a configuration dict, tagged with their type
Str(s) == <<"str", s>>
Int(n) == <<"int", n>>
List(l) == <<"list", l>>

\* dict.get(key, default) on an ordered list of <<key, value>>
DictGetDefault(d, key, default) ==
    IF key \in Keys(d) THEN DictGet(d, key) ELSE default

\* json.dump of one value: a str becomes a JSON string, an int a JSON
\* number, a list of str a JSON array of strings
JsonEncode(v) ==
    CASE v[1] = "str" -> <<"string", v[2]>>
      [] v[1] = "int" -> <<"number", v[2]>>
      [] v[1] = "list" -> <<"array", [k \in 1..Len(v[2]) |-> <<"string", v[2][k]>>]>>

\* json.load of one value
JsonDecode(t) ==
    CASE t[1] = "string" -> Str(t[2])
      [] t[1] = "number" -> Int(t[2])
      [] t[1] = "array" -> List([k \in 1..Len(t[2]) |-> t[2][k][2]])

\* JsonDump that loses the last member of the dict
JsonDumpTruncated(d) ==
    <<"object", [k \in 1..(Len(d) - 1) |-> <<d[k][1], JsonEncode(d[k][2])>>]>>

\* json.dump(d, f): the text of a JSON object, its members in dict order
JsonDump(d) == <<"object", [k \in 1..Len(d) |-> <<d[k][1], JsonEncode(d[k][2])>>]>>

\* json.load(f) of the text of a JSON object
JsonLoad(text) == [k \in 1..Len(text[2]) |-> <<text[2][k][1], JsonDecode(text[2][k][2])>>]

\* a file whose text is not JSON: json.load raises JSONDecodeError
Garbage == <<"garbage">>

\* lines 55-63: default_config
DefaultConfig ==
    << <<"model", Str("gpt-3.5-turbo")>>,
       <<"openai_api_key", Str("")>>,
       <<"gemini_api_key", Str("")>>,
       <<"max_retries", Int(DefaultMaxRetries)>>,
       <<"retry_delay", Int(DefaultRetryDelay)>>,
       <<"session_refresh_interval", Int(DefaultInterval)>>,
       <<"additional_checks", List(<<>>)>> >>

\* a configuration a user wrote, with a session_refresh_interval
UserConfig(retries, iv, checks) ==
    << <<"model", Str("gpt-3.5-turbo")>>,
       <<"openai_api_key", Str("sk")>>,
       <<"max_retries", Int(retries)>>,
       <<"session_refresh_interval", Int(iv)>>,
       <<"additional_checks", List(checks)>> >>

\* a configuration a user wrote that leaves session_refresh_interval out
UserConfigNoInterval(retries, checks) ==
    << <<"model", Str("gpt-3.5-turbo")>>,
       <<"openai_api_key", Str("sk")>>,
       <<"max_retries", Int(retries)>>,
       <<"additional_checks", List(checks)>> >>

CheckNames == {<<>>, <<"logic", "tone">>}

UserConfigs ==
    {UserConfig(1, iv, cs) : iv \in {0, 1, 2}, cs \in CheckNames}
    \cup {UserConfig(0, 1, <<>>), UserConfigNoInterval(1, <<"logic">>)}

Paths == {"config.json", "my.json"}

FileTexts == {Garbage} \cup {JsonDump(d) : d \in UserConfigs}

\* the exception of lines 66-68, with its attributes message and config
ConfigFileNotFoundError(path, default) ==
    [type |-> "ConfigFileNotFoundError",
     message |-> <<Lit("default_config_file_created"), path>>,
     config |-> default]

\* lines 41-43: the attributes of a GrammarChecker constructed with config d
NewChecker(d) == [config |-> d, session_count |-> 0, paragraph_count |-> 0]

\* lines 51-71: load_config(path): what it writes, raises and returns
LoadConfig(path) ==
    IF files[path] = Absent
    THEN [written |-> [files EXCEPT ![path] = JsonDump(DefaultConfig)],
          raises |-> ConfigFileNotFoundError(path, DefaultConfig),
          returns |-> <<>>]
    ELSE IF files[path] = Garbage
    THEN [written |-> files, raises |-> [type |-> "JSONDecodeError"],
          returns |-> <<>>]
    ELSE [written |-> files, raises |-> NoException,
          returns |-> JsonLoad(files[path])]

\* lines 34-49: GrammarChecker(config_path), inside a try statement that
\* handles ConfigFileNotFoundError (handled) or outside of one
GrammarCheckerInit(handled) ==
    LET out == LoadConfig(config_path) IN
    /\ files' = out.written
    /\ IF out.raises.type = "none"
       THEN /\ checker' = NewChecker(out.returns)
            /\ main_pc' = "run"
            /\ UNCHANGED <<caught, main_exc>>
       ELSE IF handled /\ out.raises.type = "ConfigFileNotFoundError"
       THEN /\ caught' = out.raises
            /\ main_pc' = "except"
            /\ UNCHANGED <<checker, main_exc>>
       ELSE /\ main_exc' = out.raises.type
            /\ main_pc' = "crashed"
            /\ UNCHANGED <<checker, caught>>

pipelineVars == <<paragraphs, config, progress_callback, pc, i, j, row, results,
                  prompt, target, attempt, errs, tries, naps, ret, exc, exc_message,
                  calls, faults, sleeps, clock, refreshed, notes, answers,
                  rerunVars>>

\* main, lines 289-290: try: checker = GrammarChecker(args.config)
MainTry ==
    /\ main_pc = "construct"
    /\ GrammarCheckerInit(TRUE)
    /\ UNCHANGED <<config_path, word_paragraphs, cli_i, cli_k, result,
                   cli_results, cli_sleeps>>
    /\ UNCHANGED printed
    /\ UNCHANGED <<pipelineVars, desktopVars, batchVars>>
    /\ UNCHANGED <<createPromptVars, streamlitVars, readerVars>>

\* main, lines 291-294: the handler prints and constructs again
MainExcept ==
    /\ main_pc = "except"
    /\ GrammarCheckerInit(FALSE)
    /\ UNCHANGED <<config_path, word_paragraphs, cli_i, cli_k, result,
                   cli_results, cli_sleeps>>
    /\ UNCHANGED printed
    /\ UNCHANGED <<pipelineVars, desktopVars, batchVars>>
    /\ UNCHANGED <<createPromptVars, streamlitVars, readerVars>>

-----------------------------------------------------------------------------
(* The command line program: run and process_paragraphs *)

cli_interval ==
    DictGetDefault(checker.config, "session_refresh_interval", Int(DefaultInterval))[2]

cli_max_retries ==
    DictGetDefault(checker.config, "max_retries", Int(DefaultMaxRetries))[2]

\* line 166 with the argument additional_checks = None
cli_additional_checks ==
    DictGetDefault(checker.config, "additional_checks", List(<<>>))[2]

\* lines 99-117: the two prompts of the command line program
CreateGrammarPrompt(text) == <<Lit("zh_cli_grammar"), TextPart(text)>>
CreateAdditionalCheckPrompt(text, requirement) ==
    <<Lit("zh_cli_additional"), requirement, TextPart(text)>>

\* lines 119-147: what call_ai_api(p) can return
CliCallReturns(p) ==
    IF cli_max_retries = 0 THEN {None}
    ELSE {Reply(p), FailureString(Raised(cli_max_retries - 1))}

\* Run that counts the paragraphs of each document from zero
RunResettingCount ==
    /\ main_pc = "run"
    /\ main_pc' = IF word_paragraphs = <<>> THEN "done" ELSE "loop"
    /\ printed' = IF word_paragraphs = <<>>
                  THEN <<Lit("zh_no_valid_paragraphs_exiting")>>
                  ELSE printed
    /\ cli_i' = 0
    /\ cli_results' = <<>>
    /\ checker' = [checker EXCEPT !.paragraph_count = 0]
    /\ UNCHANGED <<files, config_path, word_paragraphs, caught, cli_k,
                   result, main_exc, cli_sleeps>>
    /\ UNCHANGED <<pipelineVars, desktopVars, batchVars>>
    /\ UNCHANGED <<createPromptVars, streamlitVars, readerVars>>

\* run, lines 256-262: read the document; nothing to do without paragraphs
Run ==
    /\ main_pc = "run"
    /\ main_pc' = IF word_paragraphs = <<>> THEN "done" ELSE "loop"
    /\ printed' = IF word_paragraphs = <<>>
                  THEN <<Lit("zh_no_valid_paragraphs_exiting")>>
                  ELSE printed
    /\ cli_i' = 0
    /\ cli_results' = <<>>
    /\ UNCHANGED <<files, config_path, word_paragraphs, checker, caught, cli_k,
                   result, main_exc, cli_sleeps>>
    /\ UNCHANGED <<pipelineVars, desktopVars, batchVars>>
    /\ UNCHANGED <<createPromptVars, streamlitVars, readerVars>>

\* lines 172-184: count the paragraph, should_refresh_session (line 151),
\* the new result dict
CliBeginParagraph ==
    /\ main_pc = "loop"
    /\ cli_i < Len(word_paragraphs)
    /\ LET count == checker.paragraph_count + 1 IN
       IF cli_interval = 0
       THEN /\ checker' = [checker EXCEPT !.paragraph_count = count]
            /\ main_exc' = "ZeroDivisionError"
            /\ main_pc' = "crashed"
            /\ UNCHANGED result
       ELSE /\ checker' = [checker EXCEPT
                             !.paragraph_count = count,
                             !.session_count =
                                 IF count % cli_interval = 0 THEN @ + 1 ELSE @]
            /\ result' = << <<"original_text", word_paragraphs[cli_i + 1]>>,
                            <<"grammar_check", Str("")>>,
                            <<"additional_checks", <<>> >> >>
            /\ main_pc' = "grammar"
            /\ UNCHANGED main_exc
    /\ UNCHANGED <<files, config_path, word_paragraphs, caught, cli_i, cli_k,
                   cli_results, cli_sleeps>>
    /\ UNCHANGED printed
    /\ UNCHANGED <<pipelineVars, desktopVars, batchVars>>
    /\ UNCHANGED <<createPromptVars, streamlitVars, readerVars>>

\* lines 187-189: the grammar check
CliGrammarCheck ==
    /\ main_pc = "grammar"
    /\ \E r \in CliCallReturns(CreateGrammarPrompt(word_paragraphs[cli_i + 1])) :
        result' = DictSet(result, "grammar_check", r)
    /\ cli_k' = 0
    /\ main_pc' = "additional"
    /\ UNCHANGED <<files, config_path, word_paragraphs, checker, caught, cli_i,
                   cli_results, main_exc, cli_sleeps>>
    /\ UNCHANGED printed
    /\ UNCHANGED <<pipelineVars, desktopVars, batchVars>>
    /\ UNCHANGED <<createPromptVars, streamlitVars, readerVars>>

\* lines 192-195: one additional check, stored under its requirement
CliAdditionalCheck ==
    /\ main_pc = "additional"
    /\ cli_k < Len(cli_additional_checks)
    /\ LET check_name == cli_additional_checks[cli_k + 1] IN
       \E r \in CliCallReturns(CreateAdditionalCheckPrompt(
                                   word_paragraphs[cli_i + 1], check_name)) :
        result' = DictSet(result, "additional_checks",
                          DictSet(DictGet(result, "additional_checks"),
                                  check_name, r))
    /\ cli_k' = cli_k + 1
    /\ UNCHANGED <<files, config_path, word_paragraphs, main_pc, checker, caught,
                   cli_i, cli_results, main_exc, cli_sleeps>>
    /\ UNCHANGED printed
    /\ UNCHANGED <<pipelineVars, desktopVars, batchVars>>
    /\ UNCHANGED <<createPromptVars, streamlitVars, readerVars>>

\* lines 197-200: results.append(result) and time.sleep(0.5)
CliAppend ==
    /\ main_pc = "additional"
    /\ cli_k = Len(cli_additional_checks)
    /\ cli_results' = ListAppend(cli_results, result)
    /\ cli_sleeps' = cli_sleeps + 1
    /\ cli_i' = cli_i + 1
    /\ main_pc' = "loop"
    /\ UNCHANGED <<files, config_path, word_paragraphs, checker, caught, cli_k,
                   result, main_exc>>
    /\ UNCHANGED printed
    /\ UNCHANGED <<pipelineVars, desktopVars, batchVars>>
    /\ UNCHANGED <<createPromptVars, streamlitVars, readerVars>>

\* save_to_excel, lines 204-233: to_excel returns and the path is printed,
\* or it raises and the handler of line 232 prints the error; either way
\* the method returns None
SaveToExcel(to_excel_succeeds) ==
    IF to_excel_succeeds THEN <<Lit("zh_results_saved_to")>>
    ELSE <<Lit("zh_error_while_saving_excel")>>

\* lines 267-270: the closing report of run
CompletionReport ==
    <<Lit("zh_processing_finished"), Lit("zh_total_paragraphs"),
      Lit("zh_ai_sessions"), Lit("zh_result_file")>>

\* line 202 and lines 262-270: return results, save them, report
CliReturn ==
    /\ main_pc = "loop"
    /\ cli_i = Len(word_paragraphs)
    /\ main_pc' = "done"
    /\ \E to_excel_succeeds \in BOOLEAN :
        printed' = printed \o SaveToExcel(to_excel_succeeds) \o CompletionReport
    /\ UNCHANGED <<files, config_path, word_paragraphs, checker, caught, cli_i,
                   cli_k, result, cli_results, main_exc, cli_sleeps>>
    /\ UNCHANGED <<pipelineVars, desktopVars, batchVars>>
    /\ UNCHANGED <<createPromptVars, streamlitVars, readerVars>>

\* process_paragraphs of src/utils/checker_core.py is not running
PipelineIdle ==
    /\ paragraphs = <<>>
    /\ config = Config("", 0, 0, 0, <<>>, "Chinese")
    /\ progress_callback = "none"
    /\ pc = "idle"
    /\ i = 0
    /\ j = 0
    /\ row = <<>>
    /\ results = <<>>
    /\ prompt = <<>>
    /\ target = <<>>
    /\ attempt = 0
    /\ errs = <<>>
    /\ tries = 0
    /\ naps = <<>>
    /\ ret = None
    /\ exc = "none"
    /\ exc_message = <<>>
    /\ calls = 0
    /\ faults = 0
    /\ sleeps = [backoff |-> 0, refresh |-> 0, throttle |-> 0]
    /\ clock = 0
    /\ refreshed = {}
    /\ notes = <<>>
    /\ backend = "any"
    /\ answers = {}
    /\ run = 1
    /\ previous = NoOutcome

\* main is called with a word file that exists, line 284
InitCli ==
    /\ PipelineIdle
    /\ DesktopIdle
    /\ CreatePromptIdle
    /\ StreamlitIdle
    /\ ReaderIdle
    /\ files \in [Paths -> {Absent} \cup FileTexts]
    /\ config_path \in Paths
    /\ word_paragraphs \in {Document(n) : n \in 0..MaxParas}
    /\ main_pc = "construct"
    /\ checker = NoChecker
    /\ caught = NoException
    /\ cli_i = 0
    /\ cli_k = 0
    /\ result = <<>>
    /\ cli_results = <<>>
    /\ main_exc = "none"
    /\ cli_sleeps = 0
    /\ printed = <<>>
    /\ word_files = <<>>
    /\ batch_i = 0

NextCli ==
    \/ MainTry
    \/ MainExcept
    \/ Run
    \/ CliBeginParagraph
    \/ CliGrammarCheck
    \/ CliAdditionalCheck
    \/ CliAppend
    \/ CliReturn

SpecCli == InitCli /\ [][NextCli]_vars

-----------------------------------------------------------------------------
(* batch_process_documents, src/batch_processor.py: one GrammarChecker,    *)
(* constructed as in main (lines 48-53), runs on every document            *)

\* lines 69-72 and 56-68: the call of checker.run has returned, or raised
\* an exception that line 71 catches; on to the next document
BatchNextDocument ==
    /\ main_pc \in {"done", "crashed"}
    /\ checker # NoChecker
    /\ batch_i < Len(word_files)
    /\ printed' = printed \o
           <<IF main_pc = "done" THEN Lit("batch_completed")
             ELSE Lit("batch_processing_failed"),
             Lit("batch_processing_document")>>
    /\ batch_i' = batch_i + 1
    /\ word_paragraphs' = word_files[batch_i + 1]
    /\ main_exc' = "none"
    /\ main_pc' = "run"
    /\ UNCHANGED <<files, config_path, checker, caught, cli_i, cli_k, result,
                   cli_results, cli_sleeps, word_files>>
    /\ UNCHANGED <<pipelineVars, desktopVars>>
    /\ UNCHANGED <<createPromptVars, streamlitVars, readerVars>>

\* lines 69-75: the call of checker.run on the last document has returned
\* or raised; the closing report
BatchReturn ==
    /\ main_pc \in {"done", "crashed"}
    /\ checker # NoChecker
    /\ batch_i = Len(word_files)
    /\ printed' = printed \o
           <<IF main_pc = "done" THEN Lit("batch_completed")
             ELSE Lit("batch_processing_failed"),
             Lit("batch_finished")>>
    /\ main_exc' = "none"
    /\ main_pc' = "batch_done"
    /\ UNCHANGED <<files, config_path, word_paragraphs, checker, caught, cli_i,
                   cli_k, result, cli_results, cli_sleeps, batchVars>>
    /\ UNCHANGED <<pipelineVars, desktopVars>>
    /\ UNCHANGED <<createPromptVars, streamlitVars, readerVars>>

\* the configuration files of a batch: none, or one a user wrote
BatchConfigs ==
    {UserConfig(1, iv, <<>>) : iv \in {0, 1, 2}}
    \cup {UserConfigNoInterval(1, <<"logic">>)}

\* the documents glob.glob found (line 39): at least one, line 41
WordFiles ==
    UNION {[1..m -> {Document(n) : n \in 0..MaxParas}] : m \in 1..MaxDocs}

\* batch_process_documents is called on a folder with documents; it is
\* about to construct the checker from "config.json" (line 49), and the
\* first iteration of line 56 will run it on the first document
InitBatch ==
    /\ PipelineIdle
    /\ DesktopIdle
    /\ CreatePromptIdle
    /\ StreamlitIdle
    /\ ReaderIdle
    /\ \E text \in {Absent} \cup {JsonDump(d) : d \in BatchConfigs} :
        files = [path \in Paths |-> IF path = "config.json" THEN text ELSE Absent]
    /\ config_path = "config.json"
    /\ word_files \in WordFiles
    /\ batch_i = 1
    /\ word_paragraphs = word_files[1]
    /\ main_pc = "construct"
    /\ checker = NoChecker
    /\ caught = NoException
    /\ cli_i = 0
    /\ cli_k = 0
    /\ result = <<>>
    /\ cli_results = <<>>
    /\ main_exc = "none"
    /\ cli_sleeps = 0
    /\ printed = <<>>

NextBatch ==
    \/ MainTry
    \/ MainExcept
    \/ Run
    \/ CliBeginParagraph
    \/ CliGrammarCheck
    \/ CliAdditionalCheck
    \/ CliAppend
    \/ CliReturn
    \/ BatchNextDocument
    \/ BatchReturn

SpecBatch == InitBatch /\ [][NextBatch]_vars

-----------------------------------------------------------------------------
(* The desktop program, src/desktop_app.py: MainWindow and ProcessingThread *)

\* the values of the input widgets start_processing reads, and of the two
\* spin boxes for the retry policy it does not read
Form(env, key, chinese, iv, checks, retries, delay) ==
    [provider_combo |-> "openai", model_combo |-> "gpt-3.5-turbo",
     OPENAI_API_KEY |-> env, openai_key_input |-> key,
     chinese_radio |-> chinese, session_interval_spin |-> iv,
     checks_list |-> checks, max_retries_spin |-> retries,
     retry_delay_spin |-> delay]

\* no credential at all; one in the input; one in the environment, with
\* and without another one in the input.  The spin boxes hold values of
\* their ranges (lines 213 and 220): 1 attempt or the 3 of line 214, a
\* delay of half a second or the second of line 221
Forms ==
    {Form("", "", TRUE, 1, <<>>, DefaultMaxRetries, DefaultRetryDelay),
     Form("", "sk", TRUE, 1, <<LogicReq>>, 1, 1),
     Form("sk-env", "", FALSE, DefaultInterval, <<>>, DefaultMaxRetries, 1),
     Form("sk-env", "sk", FALSE, 1, <<>>, 1, DefaultRetryDelay)}

\* lines 507-512: the credential, from the environment or else the input
FormApiKey ==
    IF form.OPENAI_API_KEY # "" THEN form.OPENAI_API_KEY
    ELSE form.openai_key_input

\* DesktopConfig that carries the values of the two spin boxes
DesktopConfigFromSpins ==
    Config(FormApiKey, form.max_retries_spin, form.retry_delay_spin,
           form.session_interval_spin, form.checks_list,
           IF form.chinese_radio THEN "Chinese" ELSE "English")

\* lines 518-525: the config of the run.  It has no max_retries and no
\* retry_delay: lines 112-113 of checker_core.py read them with their
\* defaults
DesktopConfig ==
    Config(FormApiKey, DefaultMaxRetries, DefaultRetryDelay,
           form.session_interval_spin, form.checks_list,
           IF form.chinese_radio THEN "Chinese" ELSE "English")

\* QMessageBox.warning / information / critical with its text
MessageBox(kind, text) == <<kind, text>>

\* line 62: pd.DataFrame(results), the columns being the keys of the rows
DataFrame(rs) ==
    [columns |-> IF rs = <<>> THEN <<>>
                 ELSE [f \in 1..Len(rs[1]) |-> rs[1][f][1]],
     rows |-> [k \in 1..Len(rs) |-> [f \in 1..Len(rs[k]) |-> rs[k][f][2]]]]

\* LoadWordDocument that empties and refills the list current_paragraphs
\* refers to instead of binding a new list
LoadWordDocumentInPlace ==
    /\ \E readable \in BOOLEAN, n \in 0..MaxParas :
        IF readable
        THEN /\ current_paragraphs' = Document(n)
             /\ paragraphs' = IF same_list THEN Document(n) ELSE paragraphs
             /\ UNCHANGED <<dialog, same_list>>
        ELSE /\ dialog' = MessageBox("critical", <<Lit("reading_the_document_failed")>>)
             /\ UNCHANGED <<current_paragraphs, paragraphs, same_list>>
    /\ UNCHANGED <<form, start_btn, progress_bar, status_label, saved,
                   processing_thread, signals>>
    /\ UNCHANGED <<config, progress_callback, pc, i, j, row, results, prompt,
                   target, attempt, errs, tries, naps, ret, exc, exc_message,
                   calls, faults, sleeps, clock, refreshed, notes, answers,
                   rerunVars, cliVars>>
    /\ UNCHANGED <<createPromptVars, streamlitVars, readerVars>>

\* lines 380-401: load_word_document, of a file the user picked: a
\* document of n paragraphs, or a file python-docx cannot read.  Line 384
\* makes a new list and line 391 binds current_paragraphs to it: the list
\* a thread was given (line 533) is another object from then on
LoadWordDocument ==
    /\ \E readable \in BOOLEAN, n \in 0..MaxParas :
        IF readable
        THEN /\ current_paragraphs' = Document(n)
             /\ same_list' = FALSE
             /\ UNCHANGED dialog
        ELSE /\ dialog' = MessageBox("critical", <<Lit("reading_the_document_failed")>>)
             /\ UNCHANGED <<current_paragraphs, same_list>>
    /\ UNCHANGED <<form, start_btn, progress_bar, status_label, saved,
                   processing_thread, signals>>
    /\ UNCHANGED <<pipelineVars, cliVars>>
    /\ UNCHANGED <<createPromptVars, streamlitVars, readerVars>>

\* StartProcessing without start_btn.setEnabled(False)
StartProcessingButtonLeftEnabled ==
    /\ start_btn
    /\ run <= MaxRuns
    /\ IF current_paragraphs = <<>>
       THEN /\ dialog' = MessageBox("warning", <<Lit("select_a_document_first")>>)
            /\ UNCHANGED <<start_btn, progress_bar, status_label,
                           processing_thread, paragraphs, config, same_list>>
       ELSE IF FormApiKey = ""
       THEN /\ dialog' = MessageBox("warning",
                             <<Lit("enter_the_api_key_of"), "OPENAI">>)
            /\ UNCHANGED <<start_btn, progress_bar, status_label,
                           processing_thread, paragraphs, config, same_list>>
       ELSE /\ progress_bar' = [progress_bar EXCEPT !.visible = TRUE]
            /\ status_label' = [status_label EXCEPT !.visible = TRUE]
            /\ paragraphs' = current_paragraphs
            /\ same_list' = TRUE
            /\ config' = DesktopConfig
            /\ processing_thread' = "started"
            /\ UNCHANGED <<dialog, start_btn>>
    /\ UNCHANGED <<current_paragraphs, form, saved, signals>>
    /\ UNCHANGED <<progress_callback, pc, i, j, row, results, prompt, target,
                   attempt, errs, tries, naps, ret, exc, exc_message, calls, faults,
                   sleeps, clock, refreshed, notes, answers, rerunVars, cliVars>>
    /\ UNCHANGED <<createPromptVars, streamlitVars, readerVars>>

\* lines 500-537: start_processing, the slot of start_btn.clicked
StartProcessing ==
    /\ start_btn
    /\ run <= MaxRuns
    /\ IF current_paragraphs = <<>>
       THEN /\ dialog' = MessageBox("warning", <<Lit("select_a_document_first")>>)
            /\ UNCHANGED <<start_btn, progress_bar, status_label,
                           processing_thread, paragraphs, config, same_list>>
       ELSE IF FormApiKey = ""
       THEN /\ dialog' = MessageBox("warning",
                             <<Lit("enter_the_api_key_of"), "OPENAI">>)
            /\ UNCHANGED <<start_btn, progress_bar, status_label,
                           processing_thread, paragraphs, config, same_list>>
       ELSE /\ start_btn' = FALSE
            /\ progress_bar' = [progress_bar EXCEPT !.visible = TRUE]
            /\ status_label' = [status_label EXCEPT !.visible = TRUE]
            /\ paragraphs' = current_paragraphs
            /\ same_list' = TRUE
            /\ config' = DesktopConfig
            /\ processing_thread' = "started"
            /\ UNCHANGED dialog
    /\ UNCHANGED <<current_paragraphs, form, saved, signals>>
    /\ UNCHANGED <<progress_callback, pc, i, j, row, results, prompt, target,
                   attempt, errs, tries, naps, ret, exc, exc_message, calls, faults,
                   sleeps, clock, refreshed, notes, answers, rerunVars, cliVars>>
    /\ UNCHANGED <<createPromptVars, streamlitVars, readerVars>>

\* the locals of process_paragraphs and call_ai_api are gone
FrameDropped ==
    /\ progress_callback' = "none"
    /\ pc' = "idle"
    /\ i' = 0
    /\ j' = 0
    /\ row' = <<>>
    /\ results' = <<>>
    /\ prompt' = <<>>
    /\ target' = <<>>
    /\ attempt' = 0
    /\ errs' = <<>>
    /\ tries' = 0
    /\ naps' = <<>>
    /\ ret' = None
    /\ exc' = "none"
    /\ exc_message' = <<>>
    /\ calls' = 0
    /\ faults' = 0
    /\ sleeps' = [backoff |-> 0, refresh |-> 0, throttle |-> 0]
    /\ clock' = 0
    /\ refreshed' = {}
    /\ notes' = <<>>

\* ProcessingThread.run, lines 47-61: the check of api_key, then the call
\* of core_process_paragraphs (lines 94-97 of checker_core.py)
ThreadRun ==
    /\ processing_thread = "started"
    /\ IF config.api_key = ""
       THEN /\ signals' = Append(signals,
                  <<"error_occurred",
                    <<Lit(IF config.language = "Chinese"
                          THEN "zh_api_key_must_not_be_empty"
                          ELSE "en_api_key_cannot_be_empty")>>>>)
            /\ processing_thread' = "finished"
            /\ UNCHANGED <<progress_callback, pc, i, j, row, results, prompt,
                           target, attempt, errs, tries, naps, ret, exc, exc_message,
                           calls, faults, sleeps, clock, refreshed, notes>>
       ELSE /\ processing_thread' = "running"
            /\ progress_callback' = "emit"
            /\ pc' = "for"
            /\ i' = 0
            /\ j' = 0
            /\ row' = <<>>
            /\ results' = <<>>
            /\ prompt' = <<>>
            /\ target' = <<>>
            /\ attempt' = 0
            /\ errs' = <<>>
            /\ tries' = 0
            /\ naps' = <<>>
            /\ ret' = None
            /\ exc' = "none"
            /\ exc_message' = <<>>
            /\ calls' = 0
            /\ faults' = 0
            /\ sleeps' = [backoff |-> 0, refresh |-> 0, throttle |-> 0]
            /\ clock' = 0
            /\ refreshed' = {}
            /\ notes' = <<>>
            /\ UNCHANGED signals
    /\ UNCHANGED <<paragraphs, config, answers, rerunVars, cliVars, uiVars>>
    /\ UNCHANGED <<createPromptVars, streamlitVars, readerVars>>
    /\ UNCHANGED same_list

\* ThreadReturn that resets the widgets itself instead of emitting
ThreadReturnDirect ==
    /\ processing_thread = "running"
    /\ pc \in {"done", "raised"}
    /\ start_btn' = TRUE
    /\ progress_bar' = [progress_bar EXCEPT !.visible = FALSE]
    /\ status_label' = [status_label EXCEPT !.visible = FALSE]
    /\ processing_thread' = "finished"
    /\ run' = run + 1
    /\ FrameDropped
    /\ UNCHANGED <<paragraphs, config, answers, backend, previous, cliVars,
                   current_paragraphs, form, dialog, saved, signals>>
    /\ UNCHANGED <<createPromptVars, streamlitVars, readerVars>>
    /\ UNCHANGED same_list

\* ProcessingThread.run, lines 59-65: core_process_paragraphs has returned
\* or raised; emit processing_finished or error_occurred
ThreadReturn ==
    /\ processing_thread = "running"
    /\ pc \in {"done", "raised"}
    /\ signals' = Append(signals,
                         IF pc = "done"
                         THEN <<"processing_finished", DataFrame(results)>>
                         ELSE <<"error_occurred", exc_message>>)
    /\ processing_thread' = "finished"
    /\ run' = run + 1
    /\ FrameDropped
    /\ UNCHANGED <<paragraphs, config, answers, backend, previous, cliVars,
                   uiVars>>
    /\ UNCHANGED <<createPromptVars, streamlitVars, readerVars>>
    /\ UNCHANGED same_list

\* lines 563-566 and 572-575: the widgets after a run
ResetWidgets ==
    /\ start_btn' = TRUE
    /\ progress_bar' = [progress_bar EXCEPT !.visible = FALSE]
    /\ status_label' = [status_label EXCEPT !.visible = FALSE]

\* Dispatch whose on_processing_finished resets the widgets in the try
\* block and not in a finally: not after a failed save
DispatchWithoutFinally ==
    /\ signals # <<>>
    /\ signals' = Tail(signals)
    /\ LET sig == Head(signals) IN
       \E to_excel_succeeds \in BOOLEAN :
        IF sig[1] = "progress_updated"
        THEN /\ progress_bar' = [progress_bar EXCEPT !.value = sig[2]]
             /\ status_label' = [status_label EXCEPT !.text = sig[3]]
             /\ UNCHANGED <<start_btn, dialog, saved>>
        ELSE IF sig[1] = "processing_finished"
        THEN IF to_excel_succeeds
             THEN /\ saved' = sig[2]
                  /\ dialog' = MessageBox("information",
                                   <<Lit("check_finished_saved"), Len(sig[2].rows)>>)
                  /\ ResetWidgets
             ELSE /\ dialog' = MessageBox("critical",
                                   <<Lit("saving_the_excel_file_failed")>>)
                  /\ UNCHANGED <<saved, start_btn, progress_bar, status_label>>
        ELSE /\ dialog' = MessageBox("critical",
                              <<Lit("error_while_processing"), sig[2]>>)
             /\ ResetWidgets
             /\ UNCHANGED saved
    /\ UNCHANGED <<current_paragraphs, form, processing_thread>>
    /\ UNCHANGED <<pipelineVars, cliVars>>
    /\ UNCHANGED <<createPromptVars, streamlitVars, readerVars>>
    /\ UNCHANGED same_list

\* the event loop of the UI thread delivers the oldest queued signal to the
\* slot connected at lines 534-536: update_progress (lines 539-542),
\* on_processing_finished (lines 544-566, to_excel succeeding or raising)
\* or on_processing_error (lines 568-575)
Dispatch ==
    /\ signals # <<>>
    /\ signals' = Tail(signals)
    /\ LET sig == Head(signals) IN
       \E to_excel_succeeds \in BOOLEAN :
        IF sig[1] = "progress_updated"
        THEN /\ progress_bar' = [progress_bar EXCEPT !.value = sig[2]]
             /\ status_label' = [status_label EXCEPT !.text = sig[3]]
             /\ UNCHANGED <<start_btn, dialog, saved>>
        ELSE IF sig[1] = "processing_finished"
        THEN /\ IF to_excel_succeeds
                THEN /\ saved' = sig[2]
                     /\ dialog' = MessageBox("information",
                                      <<Lit("check_finished_saved"), Len(sig[2].rows)>>)
                ELSE /\ dialog' = MessageBox("critical",
                                      <<Lit("saving_the_excel_file_failed")>>)
                     /\ UNCHANGED saved
             /\ ResetWidgets
        ELSE /\ dialog' = MessageBox("critical",
                              <<Lit("error_while_processing"), sig[2]>>)
             /\ ResetWidgets
             /\ UNCHANGED saved
    /\ UNCHANGED <<current_paragraphs, form, processing_thread>>
    /\ UNCHANGED <<pipelineVars, cliVars>>
    /\ UNCHANGED <<createPromptVars, streamlitVars, readerVars>>
    /\ UNCHANGED same_list

\* lines 73-75 and 338-342: the window after construction
InitDesktop ==
    /\ PipelineIdle
    /\ CliIdle
    /\ CreatePromptIdle
    /\ StreamlitIdle
    /\ ReaderIdle
    /\ current_paragraphs = <<>>
    /\ form \in Forms
    /\ start_btn = TRUE
    /\ progress_bar = [visible |-> FALSE, value |-> 0]
    /\ status_label = [visible |-> FALSE, text |-> <<>>]
    /\ dialog = <<>>
    /\ saved = <<>>
    /\ processing_thread = "none"
    /\ signals = <<>>
    /\ same_list = FALSE

NextDesktop ==
    \/ LoadWordDocument
    \/ StartProcessing
    \/ ThreadRun
    \/ ThreadReturn
    \/ Dispatch
    \/ NotifyProgress
    \/ NotifyRefresh
    \/ RefreshPause
    \/ GrammarCheck
    \/ CompletionSucceeds
    \/ CompletionFails
    \/ StoreResult
    \/ AdditionalCheck
    \/ AppendRow
    \/ Throttle
    \/ ReturnResults

SpecDesktop == InitDesktop /\ [][NextDesktop]_vars

\* a step of the worker thread: ProcessingThread.run and the pipeline it
\* calls
WorkerStep ==
    \/ ThreadRun
    \/ ThreadReturn
    \/ NotifyProgress
    \/ NotifyRefresh
    \/ RefreshPause
    \/ GrammarCheck
    \/ CompletionSucceeds
    \/ CompletionFails
    \/ StoreResult
    \/ AdditionalCheck
    \/ AppendRow
    \/ Throttle
    \/ ReturnResults

\* the desktop program with a scheduler that lets a started thread run and
\* an event loop that delivers every queued signal; the user may stop
\* loading documents and clicking at any time
SpecDesktopFair ==
    SpecDesktop /\ WF_vars(WorkerStep) /\ WF_vars(Dispatch)

-----------------------------------------------------------------------------
(* The desktop program on long documents: one run of the worker thread,    *)
(* started from a window holding a loaded document and a filled form, with *)
(* a backend that answers every call, the emitted signals waiting in the   *)
(* queue of the event loop                                                 *)

MaxTotal == 101     \* paragraphs of the longest document

\* the forms of Forms with the credential of the environment, nothing
\* typed and no additional check
LongRunForms ==
    {f \in Forms :
        /\ f.OPENAI_API_KEY # ""
        /\ f.openai_key_input = ""
        /\ f.checks_list = <<>>}

\* the window after construction, load_word_document (lines 380-401) on a
\* document of 1..MaxTotal paragraphs and the user's input
InitLongRun ==
    /\ PipelineIdle
    /\ CliIdle
    /\ CreatePromptIdle
    /\ StreamlitIdle
    /\ ReaderIdle
    /\ current_paragraphs \in {Document(n) : n \in 1..MaxTotal}
    /\ form \in LongRunForms
    /\ start_btn = TRUE
    /\ progress_bar = [visible |-> FALSE, value |-> 0]
    /\ status_label = [visible |-> FALSE, text |-> <<>>]
    /\ dialog = <<>>
    /\ saved = <<>>
    /\ processing_thread = "none"
    /\ signals = <<>>
    /\ same_list = FALSE

NextLongRun ==
    \/ StartProcessing
    \/ ThreadRun
    \/ ThreadReturn
    \/ NotifyProgress
    \/ NotifyRefresh
    \/ RefreshPause
    \/ GrammarCheck
    \/ CompletionSucceeds
    \/ StoreResult
    \/ AppendRow
    \/ Throttle
    \/ ReturnResults

SpecLongRun == InitLongRun /\ [][NextLongRun]_vars

-----------------------------------------------------------------------------
(* create_prompt (src/utils/checker_core.py, lines 13-48) called on its    *)
(* own, repeatedly on the same arguments                                   *)

\* values of the parameter language: the two the programs pass, and others
Languages == {"Chinese", "English", "", "chinese"}

\* values of the parameter check_type: the two the programs pass, and others
CheckTypes == {"grammar", "additional", "", "Grammar"}

\* values of the parameter custom_requirement
CustomRequirements == {EmptyReq, SpacesReq, LogicReq, PaddedReq}

InitCreatePrompt ==
    /\ PipelineIdle
    /\ CliIdle
    /\ DesktopIdle
    /\ StreamlitIdle
    /\ ReaderIdle
    /\ create_prompt_args \in
           [text : 1..MaxParas, language : Languages, check_type : CheckTypes,
            custom_requirement : CustomRequirements]
    /\ create_prompt_returns = <<>>

\* one call create_prompt(text, language, check_type,
\* custom_requirement=custom_requirement); nothing but its return value
\* comes of it
CallCreatePrompt ==
    /\ Len(create_prompt_returns) < MaxPromptCalls
    /\ create_prompt_returns' =
           Append(create_prompt_returns,
                  CreatePrompt(create_prompt_args.text,
                               create_prompt_args.language,
                               create_prompt_args.check_type,
                               create_prompt_args.custom_requirement))
    /\ UNCHANGED <<create_prompt_args, pipelineVars, cliVars, desktopVars>>
    /\ UNCHANGED <<streamlitVars, readerVars>>

NextCreatePrompt == CallCreatePrompt

SpecCreatePrompt == InitCreatePrompt /\ [][NextCreatePrompt]_vars

-----------------------------------------------------------------------------
(* The Streamlit program, src/app.py: main and the process_paragraphs and  *)
(* call_ai_api of StreamlitGrammarChecker, which do not use                *)
(* src/utils/checker_core.py                                               *)

\* lines 124-160: create_prompts.  Its grammar prompts ask to answer with
\* the sentinel (lines 134 and 151) where those of create_prompt ask to
\* answer with the sentinel only (checker_core.py, lines 22 and 39); the
\* other parts are the same
CreatePrompts(text, language, check_type, custom_requirement) ==
    IF language = "Chinese"
    THEN IF check_type = "grammar"
         THEN <<Lit("zh_grammar_head"), TextPart(text),
                Lit("zh_answer_in_chinese"), Lit("zh_answer_grammar_correct"),
                Lit("zh_else_point_out")>>
         ELSE <<Lit("zh_check_head"), ReqPart(custom_requirement),
                TextPart(text), Lit("zh_evaluate_in_chinese")>>
    ELSE IF check_type = "grammar"
         THEN <<Lit("en_grammar_head"), TextPart(text),
                Lit("en_respond_in_english"), Lit("en_respond_grammar_is_correct"),
                Lit("en_else_point_out")>>
         ELSE <<Lit("en_check_head"), ReqPart(custom_requirement),
                TextPart(text), Lit("en_evaluate_in_english")>>

\* lines 162-180: call_ai_api, one litellm.completion call that answers or
\* raises; no loop, no check of api_key
StreamlitCallAiApi(p, completion_succeeds) ==
    IF completion_succeeds THEN Reply(p) ELSE FailureString(Raised(0))

\* the additional checks of the sidebar: none, one, a blank one (line 406
\* accepts every non-empty text) followed by one
StreamlitChecks == {<<>>, <<LogicReq>>, <<SpacesReq, LogicReq>>}

\* st.session_state when the start button is pressed: the number inputs of
\* lines 306-329 keep max_retries and session_refresh_interval at 1 or more
SessionStates ==
    [provider : {"openai"}, model : {"gpt-3.5-turbo"},
     openai_api_key : {"", "sk"}, language : {"Chinese", "English"},
     max_retries : {1, DefaultMaxRetries}, retry_delay : {DefaultRetryDelay},
     session_refresh_interval : {1, 2}, additional_checks : StreamlitChecks]

\* lines 444-451: the config of the run, without max_retries and
\* retry_delay
StreamlitConfig ==
    [language |-> session_state.language,
     provider |-> session_state.provider,
     model |-> session_state.model,
     api_key |-> session_state.openai_api_key,
     additional_checks |-> session_state.additional_checks,
     session_refresh_interval |-> session_state.session_refresh_interval]

\* line 202: "if i > 0 and i % session_interval == 0"
StreamlitShouldRefresh(ii, session_interval) ==
    ii > 0 /\ ii % session_interval = 0

\* time.sleep(d) of process_paragraphs at the call site named site
StreamlitSleep(site, d) ==
    /\ st_sleeps' = [st_sleeps EXCEPT ![site] = @ + 1]
    /\ st_clock' = st_clock + d

\* main, lines 424-457, and process_paragraphs, lines 184-193: the start
\* button is pressed; without a document, a credential or a paragraph the
\* script shows an error and stops
StreamlitStart ==
    /\ st_pc = "main"
    /\ IF ~uploaded_file.uploaded
       THEN /\ st_error' = <<Lit("zh_upload_a_word_document_first")>>
            /\ st_pc' = "stopped"
            /\ UNCHANGED <<st_paragraphs, st_config>>
       ELSE IF session_state.openai_api_key = ""
       THEN /\ st_error' = <<Lit("zh_enter_the_api_key_of"), "OPENAI">>
            /\ st_pc' = "stopped"
            /\ UNCHANGED <<st_paragraphs, st_config>>
       ELSE IF uploaded_file.paragraphs = <<>>
       THEN /\ st_error' = <<Lit("zh_cannot_read_the_document")>>
            /\ st_pc' = "stopped"
            /\ UNCHANGED <<st_paragraphs, st_config>>
       ELSE /\ st_paragraphs' = uploaded_file.paragraphs
            /\ st_config' = StreamlitConfig
            /\ st_pc' = "for"
            /\ UNCHANGED st_error
    /\ UNCHANGED <<uploaded_file, session_state, st_i, st_j, result_row,
                   st_results, st_progress_bar, status_text, st_completions,
                   st_faults, st_sleeps, st_clock, st_exc, result_df>>
    /\ UNCHANGED <<pipelineVars, cliVars, desktopVars, createPromptVars,
                   readerVars>>

\* lines 195-206: the progress bar and the status text, the refresh pause
\* when one is due, the new result_row
StreamlitBeginParagraph ==
    /\ st_pc = "for"
    /\ st_i < Len(st_paragraphs)
    /\ st_progress_bar' = <<st_i + 1, Len(st_paragraphs)>>
    /\ IF StreamlitShouldRefresh(st_i, st_config.session_refresh_interval)
       THEN /\ status_text' = <<"refresh", st_i + 1, Len(st_paragraphs)>>
            /\ StreamlitSleep("refresh", RefreshDelay)
       ELSE /\ status_text' = <<"processing", st_i + 1, Len(st_paragraphs)>>
            /\ UNCHANGED <<st_sleeps, st_clock>>
    /\ result_row' = <<<<OriginalKey, st_paragraphs[st_i + 1]>>>>
    /\ st_pc' = "grammar"
    /\ UNCHANGED <<uploaded_file, session_state, st_paragraphs, st_config, st_i,
                   st_j, st_results, st_completions, st_faults, st_exc,
                   st_error, result_df>>
    /\ UNCHANGED <<pipelineVars, cliVars, desktopVars, createPromptVars,
                   readerVars>>

\* lines 209-211: the grammar check
StreamlitGrammarCheck ==
    /\ st_pc = "grammar"
    /\ LET grammar_prompt == CreatePrompts(st_paragraphs[st_i + 1],
                                           st_config.language, "grammar", <<>>)
       IN \E completion_succeeds \in BOOLEAN :
           /\ ~completion_succeeds => st_faults < MaxFaults
           /\ st_faults' = IF completion_succeeds THEN st_faults
                           ELSE st_faults + 1
           /\ st_completions' = Append(st_completions, grammar_prompt)
           /\ result_row' = DictSet(result_row, GrammarKey,
                                    StreamlitCallAiApi(grammar_prompt,
                                                       completion_succeeds))
    /\ st_j' = 0
    /\ st_pc' = "additional"
    /\ UNCHANGED <<uploaded_file, session_state, st_paragraphs, st_config, st_i,
                   st_results, st_progress_bar, status_text, st_sleeps, st_clock,
                   st_exc, st_error, result_df>>
    /\ UNCHANGED <<pipelineVars, cliVars, desktopVars, createPromptVars,
                   readerVars>>

\* lines 214-222: one entry of additional_checks
StreamlitAdditionalCheck ==
    /\ st_pc = "additional"
    /\ st_j < Len(st_config.additional_checks)
    /\ LET check_requirement == st_config.additional_checks[st_j + 1]
           additional_prompt == CreatePrompts(st_paragraphs[st_i + 1],
                                              st_config.language, "additional",
                                              check_requirement)
       IN IF StripTruthy(check_requirement)
          THEN \E completion_succeeds \in BOOLEAN :
                /\ ~completion_succeeds => st_faults < MaxFaults
                /\ st_faults' = IF completion_succeeds THEN st_faults
                                ELSE st_faults + 1
                /\ st_completions' = Append(st_completions, additional_prompt)
                /\ result_row' = DictSet(result_row, AdditionalKey(st_j),
                                         StreamlitCallAiApi(additional_prompt,
                                                            completion_succeeds))
          ELSE UNCHANGED <<st_faults, st_completions, result_row>>
    /\ st_j' = st_j + 1
    /\ UNCHANGED <<uploaded_file, session_state, st_pc, st_paragraphs, st_config,
                   st_i, st_results, st_progress_bar, status_text, st_sleeps,
                   st_clock, st_exc, st_error, result_df>>
    /\ UNCHANGED <<pipelineVars, cliVars, desktopVars, createPromptVars,
                   readerVars>>

\* lines 224-225: results.append(result_row) and time.sleep(0.5)
StreamlitAppend ==
    /\ st_pc = "additional"
    /\ st_j = Len(st_config.additional_checks)
    /\ st_results' = ListAppend(st_results, result_row)
    /\ StreamlitSleep("throttle", ThrottleDelay)
    /\ st_i' = st_i + 1
    /\ st_pc' = "for"
    /\ UNCHANGED <<uploaded_file, session_state, st_paragraphs, st_config, st_j,
                   result_row, st_progress_bar, status_text, st_completions,
                   st_faults, st_exc, st_error, result_df>>
    /\ UNCHANGED <<pipelineVars, cliVars, desktopVars, createPromptVars,
                   readerVars>>

\* lines 227-230: the loop has ended; return pd.DataFrame(results)
StreamlitReturn ==
    /\ st_pc = "for"
    /\ st_i = Len(st_paragraphs)
    /\ st_progress_bar' = <<1, 1>>
    /\ status_text' = <<"finished">>
    /\ result_df' = DataFrame(st_results)
    /\ st_pc' = "returned"
    /\ UNCHANGED <<uploaded_file, session_state, st_paragraphs, st_config, st_i,
                   st_j, result_row, st_results, st_completions, st_faults,
                   st_sleeps, st_clock, st_exc, st_error>>
    /\ UNCHANGED <<pipelineVars, cliVars, desktopVars, createPromptVars,
                   readerVars>>

\* the field names of the rows rs, row by row
Labels(rs) ==
    [k \in 1..Len(rs) |-> [f \in 1..Len(rs[k]) |-> rs[k][f][1]]]

\* what the process_paragraphs of app.py has done by its end: the prompts
\* of its completion calls in order, the field names of its rows, its
\* pauses by call site and their total
StreamlitFootprint ==
    [completions |-> st_completions, labels |-> Labels(st_results),
     sleeps |-> st_sleeps, clock |-> st_clock]

\* the config of the Streamlit run with max_retries = 1 and the retry_delay
\* of the sidebar
ConfigOfOneAttempt ==
    Config(st_config.api_key, 1, session_state.retry_delay,
           st_config.session_refresh_interval, st_config.additional_checks,
           st_config.language)

\* process_paragraphs of src/utils/checker_core.py is called, without a
\* progress callback, with the paragraphs of the Streamlit run that has
\* returned and with its config and max_retries = 1: lines 94-97.  The rows
\* of the Streamlit run are no longer referenced
SharedRunOfOneAttempt ==
    /\ st_pc = "returned"
    /\ pc = "idle"
    /\ run = 1
    /\ previous' = StreamlitFootprint
    /\ run' = 2
    /\ paragraphs' = st_paragraphs
    /\ config' = ConfigOfOneAttempt
    /\ pc' = "for"
    /\ st_pc' = "ended"
    /\ result_row' = <<>>
    /\ st_results' = <<>>
    /\ result_df' = None
    /\ UNCHANGED <<uploaded_file, session_state, st_paragraphs, st_config, st_i,
                   st_j, st_progress_bar, status_text, st_completions, st_faults,
                   st_sleeps, st_clock, st_exc, st_error>>
    /\ UNCHANGED <<progress_callback, i, j, row, results, prompt, target,
                   attempt, errs, tries, naps, ret, exc, exc_message, calls, faults,
                   sleeps, clock, refreshed, notes, answers, backend>>
    /\ UNCHANGED <<cliVars, desktopVars, createPromptVars, readerVars>>

\* the page of app.py with a document uploaded or not, the settings of the
\* sidebar made, and the start button pressed
InitStreamlit ==
    /\ PipelineIdle
    /\ CliIdle
    /\ DesktopIdle
    /\ CreatePromptIdle
    /\ ReaderIdle
    /\ uploaded_file \in {NoUpload} \cup {Upload(Document(n)) : n \in 0..MaxParas}
    /\ session_state \in SessionStates
    /\ st_pc = "main"
    /\ st_paragraphs = <<>>
    /\ st_config = <<>>
    /\ st_i = 0
    /\ st_j = 0
    /\ result_row = <<>>
    /\ st_results = <<>>
    /\ st_progress_bar = <<0, 1>>
    /\ status_text = <<>>
    /\ st_completions = <<>>
    /\ st_faults = 0
    /\ st_sleeps = [backoff |-> 0, refresh |-> 0, throttle |-> 0]
    /\ st_clock = 0
    /\ st_exc = "none"
    /\ st_error = <<>>
    /\ result_df = None

NextStreamlit ==
    \/ StreamlitStart
    \/ StreamlitBeginParagraph
    \/ StreamlitGrammarCheck
    \/ StreamlitAdditionalCheck
    \/ StreamlitAppend
    \/ StreamlitReturn
    \/ SharedRunOfOneAttempt
    \/ NotifyProgress
    \/ NotifyRefresh
    \/ RefreshPause
    \/ GrammarCheck
    \/ CompletionSucceeds
    \/ CompletionFails
    \/ StoreResult
    \/ AdditionalCheck
    \/ AppendRow
    \/ Throttle
    \/ ReturnResults

\* the Streamlit run followed by the run of the shared pipeline it is
\* compared with
SpecStreamlit == InitStreamlit /\ [][NextStreamlit]_vars

-----------------------------------------------------------------------------
(* The document readers on their own: read_word_document                   *)
(* (src/grammar_checker.py, lines 73-97) and load_word_document            *)
(* (src/desktop_app.py, lines 380-401), each applied once to a file        *)

MaxTextLen == 3     \* characters of a raw paragraph text
MaxRawParas == 2    \* paragraphs of a raw document

\* the characters of the texts: a blank and a letter
Characters == Whitespace \cup {"a"}

\* grammar_checker.py lines 85-90 and desktop_app.py lines 384-389: the
\* loop over doc.paragraphs that appends each stripped text unless it is
\* empty
RECURSIVE StrippedParagraphs(_)
StrippedParagraphs(raw) ==
    IF raw = <<>> THEN <<>>
    ELSE LET before == StrippedParagraphs(SubSeq(raw, 1, Len(raw) - 1))
             text == Strip(raw[Len(raw)])
         IN IF text # <<>> THEN ListAppend(before, text) ELSE before

\* the raw texts and the files
RawTexts == UNION {[1..n -> Characters] : n \in 0..MaxTextLen}
WordFile == {Unreadable} \cup
            {Docx(raw) : raw \in UNION {[1..n -> RawTexts] : n \in 0..MaxRawParas}}

\* read_word_document, lines 73-97, called by run at line 256: the
\* paragraphs and a message, or the handler of line 95, which prints the
\* error and returns []
ReadWordDocument ==
    /\ reader = "cli"
    /\ reader' = "cli_returned"
    /\ word_paragraphs' = IF word_file.readable
                          THEN StrippedParagraphs(word_file.raw)
                          ELSE <<>>
    /\ printed' = IF word_file.readable
                  THEN <<Lit("zh_document_read_with_n_paragraphs")>>
                  ELSE <<Lit("zh_error_while_reading_word_document")>>
    /\ UNCHANGED <<files, config_path, main_pc, checker, caught, cli_i, cli_k,
                   result, cli_results, main_exc, cli_sleeps, batchVars>>
    /\ UNCHANGED <<pipelineVars, desktopVars, createPromptVars, streamlitVars,
                   word_file>>

\* load_word_document, lines 380-401, on word_file: line 391 binds
\* current_paragraphs to the new list; the handler of line 400 shows a
\* message box and binds nothing
LoadWordDocumentFile ==
    /\ reader = "desktop"
    /\ reader' = "desktop_returned"
    /\ IF word_file.readable
       THEN /\ current_paragraphs' = StrippedParagraphs(word_file.raw)
            /\ same_list' = FALSE
            /\ UNCHANGED dialog
       ELSE /\ dialog' = MessageBox("critical", <<Lit("reading_the_document_failed")>>)
            /\ UNCHANGED <<current_paragraphs, same_list>>
    /\ UNCHANGED <<form, start_btn, progress_bar, status_label, saved,
                   processing_thread, signals>>
    /\ UNCHANGED <<pipelineVars, cliVars, createPromptVars, streamlitVars,
                   word_file>>

\* a file and the program that reads it: the command line program, or the
\* desktop window, new or with a document loaded before
InitReader ==
    /\ PipelineIdle
    /\ CliIdle
    /\ CreatePromptIdle
    /\ StreamlitIdle
    /\ word_file \in WordFile
    /\ reader \in {"cli", "desktop"}
    /\ current_paragraphs \in
          IF reader = "desktop" THEN {<<>>, <<<<"a">>, <<"a", "a">>>>} ELSE {<<>>}
    /\ form \in {f \in Forms : f.OPENAI_API_KEY # "" /\ f.checks_list = <<>>
                               /\ f.openai_key_input = ""}
    /\ start_btn = TRUE
    /\ progress_bar = [visible |-> FALSE, value |-> 0]
    /\ status_label = [visible |-> FALSE, text |-> <<>>]
    /\ dialog = <<>>
    /\ saved = <<>>
    /\ processing_thread = "none"
    /\ signals = <<>>
    /\ same_list = FALSE

NextReader ==
    \/ ReadWordDocument
    \/ LoadWordDocumentFile

SpecReader == InitReader /\ [][NextReader]_vars

-----------------------------------------------------------------------------
(* Properties *)

\* a requirement that is empty or consists of whitespace only
Blank(s) == \A k \in 1..Len(s) : s[k] = " "

\* the positions of key in the row r
Occurrences(r, key) == {x \in 1..Len(r) : r[x][1] = key}

\* the value v is the stored outcome of a call: a response or the marker
IsFailure(v) == v[1] = "API_CALL_FAILED"
IsReply(v) == v[1] = "reply"

ValidConfig == config.api_key # "" /\ config.max_retries >= 1

\* C1: with a non-empty credential and max_retries >= 1, whatever the backend
\* does, the run never raises, never stops before the end, holds one record
\* per finished paragraph, the k-th carrying paragraphs[k] as its original
\* text, and returns exactly len(paragraphs) records.
C1_OneRecordPerParagraphInOrder ==
    (ValidConfig /\ total >= 1) =>
        /\ pc # "raised"
        /\ (pc # "done" => ENABLED Next)
        /\ Len(results) = (IF pc = "throttle" THEN i + 1 ELSE i)
        /\ \A k \in 1..Len(results) :
            /\ Cardinality(Occurrences(results[k], OriginalKey)) = 1
            /\ DictGet(results[k], OriginalKey) = paragraphs[k]
        /\ (pc = "done" => Len(results) = total)

C1_Witness ==
    /\ ValidConfig
    /\ pc = "done"
    /\ total >= 2
    /\ faults >= 1
    /\ Len(results) = total

\* C2: every record has exactly one grammar-check field, whatever
\* additional_checks is; with max_retries >= 1 its value is the response to
\* the grammar prompt of that record's paragraph or the error marker.
C2_GrammarFieldAlwaysPopulated ==
    \A k \in 1..Len(results) :
        /\ Cardinality(Occurrences(results[k], GrammarKey)) = 1
        /\ config.max_retries >= 1 =>
            LET v == DictGet(results[k], GrammarKey) IN
            \/ v = Reply(CreatePrompt(paragraphs[k], config.language,
                                      "grammar", <<>>))
            \/ IsFailure(v)

C2_Witness ==
    /\ pc = "done"
    /\ additional_checks = <<EmptyReq, SpacesReq>>
    /\ \E k \in 1..Len(results) : IsFailure(DictGet(results[k], GrammarKey))
    /\ \E k \in 1..Len(results) : IsReply(DictGet(results[k], GrammarKey))

\* the 1-based positions of the non-blank entries of additional_checks
NonBlankPositions ==
    {q \in 1..Len(additional_checks) : ~Blank(additional_checks[q])}

\* the index numbers of the additional-check fields of the row r
AdditionalLabels(r) ==
    {r[x][1][2] : x \in {y \in 1..Len(r) : r[y][1][1] = "additional_check"}}

AdditionalFields(r) == {x \in 1..Len(r) : r[x][1][1] = "additional_check"}

C4_BlankRequirementsSkipped ==
    /\ (pc \in {"try", "ret"} /\ target[1] = "additional_check") =>
        /\ ~Blank(additional_checks[j + 1])
        /\ target[2] = j + 1
        /\ prompt = CreatePrompt(paragraph, config.language, "additional",
                                 additional_checks[j + 1])
    /\ calls <= (i + 1) * (1 + Cardinality(NonBlankPositions))
                        * config.max_retries
    /\ \A k \in 1..Len(results) :
        /\ Cardinality(AdditionalFields(results[k])) =
               Cardinality(NonBlankPositions)
        /\ \A q \in AdditionalLabels(results[k]) :
               q \in 1..Len(additional_checks) /\ ~Blank(additional_checks[q])

C4_Witness ==
    /\ additional_checks = <<SpacesReq, LogicReq>>
    /\ pc = "done"
    /\ total >= 2
    /\ calls >= 4

\* the call of call_ai_api that is over and whose value is being, or has
\* been, assigned to row[target]
CallReturned == pc \in {"ret", "additional", "throttle"}
ValueStored == pc \in {"additional", "throttle"}

\* C5: a call whose backend failed k < max_retries times and then answered
\* returns the answer, after exactly k + 1 <= max_retries invocations, and
\* the answer is what is stored under the call's key.
C5_RetrySuccess ==
    (CallReturned /\ ValidConfig /\ Len(errs) < config.max_retries) =>
        /\ tries = Len(errs) + 1
        /\ tries <= config.max_retries
        /\ ret = Reply(prompt)
        /\ ValueStored => DictGet(row, target) = Reply(prompt)

C5_Witness ==
    /\ ValueStored
    /\ config.max_retries = 3
    /\ Len(errs) = 2
    /\ tries = 3
    /\ DictGet(row, target) = Reply(prompt)

\* C6: a call all of whose max_retries >= 1 attempts failed has invoked the
\* backend exactly max_retries times, has not raised, and returns the marker
\* with the message of the error of the last attempt, which is stored under
\* the call's key; the run goes on to the next check and paragraph and
\* returns a record for every paragraph.
C6_RetryExhaustion ==
    /\ (pc = "try" /\ config.api_key # "") => tries <= config.max_retries
    /\ (CallReturned /\ ValidConfig /\ Len(errs) = config.max_retries) =>
        /\ tries = config.max_retries
        /\ ret = <<"API_CALL_FAILED",
                   <<"error_of_attempt", config.max_retries>>>>
        /\ ValueStored => DictGet(row, target) = ret
        /\ ENABLED Next
    /\ (ValidConfig /\ faults > 0) =>
        /\ pc # "raised"
        /\ pc = "done" => Len(results) = total

C6_Witness ==
    /\ pc = "done"
    /\ config.max_retries = 3
    /\ total >= 2
    /\ Len(results) = total
    /\ DictGet(results[1], GrammarKey) =
           <<"API_CALL_FAILED", <<"error_of_attempt", 3>>>>
    /\ IsReply(DictGet(results[2], GrammarKey))

\* the keys a finished row has, in order: the original text, the grammar
\* check, then one key for each non-blank entry from position q on
RECURSIVE KeysFrom(_)
KeysFrom(q) ==
    IF q > Len(additional_checks) THEN <<>>
    ELSE IF Blank(additional_checks[q]) THEN KeysFrom(q + 1)
    ELSE <<<<"additional_check", q>>>> \o KeysFrom(q + 1)

ExpectedKeys == <<OriginalKey, GrammarKey>> \o KeysFrom(1)

\* the prompt of the check stored under key for the paragraph text
ExpectedPrompt(text, key) ==
    IF key = GrammarKey
    THEN CreatePrompt(text, config.language, "grammar", <<>>)
    ELSE CreatePrompt(text, config.language, "additional",
                      additional_checks[key[2]])

\* C7: with a non-empty credential, whatever checks fail, the run never
\* raises and never stops before it returns, it returns a record for every
\* paragraph, and every record has every field: the original text, the
\* grammar check and one field for each non-blank requirement; a failed
\* check shows only as the marker in its own field, all other fields
\* holding the response to their own prompt.
C7_PartialFailure ==
    config.api_key # "" =>
        /\ pc # "raised"
        /\ exc = "none"
        /\ (pc # "done" => ENABLED Next)
        /\ (pc = "done" => Len(results) = total)
        /\ \A k \in 1..Len(results) :
            LET r == results[k] IN
            /\ [x \in 1..Len(r) |-> r[x][1]] = ExpectedKeys
            /\ r[1][2] = paragraphs[k]
            /\ config.max_retries >= 1 =>
                \A x \in 2..Len(r) :
                    \/ r[x][2] = Reply(ExpectedPrompt(paragraphs[k], r[x][1]))
                    \/ IsFailure(r[x][2])

C7_Witness ==
    /\ pc = "done"
    /\ total >= 2
    /\ Len(results) = total
    /\ Len(results[1]) = 4
    /\ IsFailure(results[1][2][2])
    /\ IsReply(results[1][3][2])
    /\ IsFailure(results[1][4][2])
    /\ IsReply(results[2][2][2])

\* C8: with an empty credential and at least one paragraph the run ends with
\* the ValueError of call_ai_api, raised by the first check (the grammar
\* check of the first paragraph) before its first attempt: it never returns,
\* no record is produced, the backend is never invoked, nothing is retried,
\* no backoff sleep is taken and no value is stored in place of the error.
C8_MissingCredential ==
    (config.api_key = "" /\ total >= 1) =>
        /\ pc \in {"for", "refresh", "pause", "grammar", "raised"}
        /\ (pc # "raised" => ENABLED Next)
        /\ calls = 0
        /\ tries = 0
        /\ attempt = 0
        /\ sleeps.backoff = 0
        /\ results = <<>>
        /\ Keys(row) \subseteq {OriginalKey}
        /\ ret = None
        /\ i = 0
        /\ pc = "raised" => exc = "ValueError" /\ target = GrammarKey

C8_Witness ==
    /\ config.api_key = ""
    /\ total >= 2
    /\ pc = "raised"
    /\ exc = "ValueError"
    /\ calls = 0

\* C9: a progress callback that raises does not keep the run from returning
\* its len(paragraphs) records: the run never ends with the callback's
\* exception.
C9_CallbackBestEffort ==
    (ValidConfig /\ progress_callback = "raising") =>
        /\ pc # "raised"
        /\ exc # "CallbackError"

\* the loop positions at which a refresh is due in a run of n paragraphs
RefreshPositions(n) ==
    {k \in 1..(n - 1) : interval # 0 /\ k % interval = 0}

\* the positions reported by the refresh notifications, in order
RefreshNotes == SelectSeq(notes, LAMBDA x : x[3][1] = "refreshing")

\* C10: the refresh pause is taken, and with a callback the refresh
\* notification emitted, once at each 0-based position i > 0 with
\* i mod interval = 0 that the loop has reached and nowhere else; a finished
\* run of n >= 1 paragraphs with interval > 0 has refreshed at exactly those
\* positions below n, which are floor((n - 1) / interval) many.
C10_RefreshPacing ==
    /\ refreshed \subseteq RefreshPositions(total)
    /\ sleeps.refresh = Cardinality(refreshed)
    /\ \A k \in RefreshPositions(total) : k < i => k \in refreshed
    /\ IF progress_callback = "none"
       THEN RefreshNotes = <<>>
       ELSE /\ {RefreshNotes[x][1] : x \in 1..Len(RefreshNotes)} =
                   refreshed \cup (IF pc = "pause" THEN {i} ELSE {})
            /\ \A x, y \in 1..Len(RefreshNotes) :
                   x < y => RefreshNotes[x][1] < RefreshNotes[y][1]
    /\ (pc = "done" /\ total >= 1 /\ interval > 0) =>
        /\ refreshed = {k \in 1..(total - 1) : k % interval = 0}
        /\ sleeps.refresh = (total - 1) \div interval
        /\ progress_callback # "none" =>
               Len(RefreshNotes) = (total - 1) \div interval

C10_Witness ==
    /\ pc = "done"
    /\ interval = 3
    /\ total = 7
    /\ progress_callback = "ok"
    /\ refreshed = {3, 6}
    /\ Len(RefreshNotes) = 2
    /\ RefreshNotes[1][1] = 3
    /\ RefreshNotes[2][1] = 6

-----------------------------------------------------------------------------
(* C11: a session refresh interval of zero disables refresh pacing: no     *)
(* refresh notification, no refresh pause, no failure (no division by      *)
(* zero), and one record per paragraph.  Stated here for the command line  *)
(* program, whose should_refresh_session divides by the interval: once a   *)
(* GrammarChecker holds a configuration with session_refresh_interval 0,   *)
(* main ends with no exception, no session refresh is counted, and a       *)
(* finished run has len(paragraphs) results.                               *)
C11_ZeroIntervalDisablesRefresh ==
    (main_pc \in {"run", "loop", "grammar", "additional", "done", "crashed"}
        /\ checker # NoChecker /\ cli_interval = 0) =>
        /\ main_exc = "none"
        /\ checker.session_count = 0
        /\ (main_pc = "done" => Len(cli_results) = Len(word_paragraphs))

-----------------------------------------------------------------------------
\* the part of a message that spells the name of a provider
ProviderName(provider) == <<"provider_name", provider>>

(* C12: the configuration error raised for a missing credential carries a  *)
(* message that names the provider whose credential is missing: when       *)
(* process_paragraphs has ended with the ValueError of call_ai_api, some   *)
(* part of the message of that exception is the name of config.provider.   *)
C12_ErrorNamesProvider ==
    (pc = "raised" /\ exc = "ValueError") =>
        \E k \in 1..Len(exc_message) :
            exc_message[k] = ProviderName(config.provider)

-----------------------------------------------------------------------------
(* C13: running process_paragraphs twice with the same paragraphs, the     *)
(* same config and the same deterministic backend yields identical output: *)
(* while the second call runs, its records are the first records of the    *)
(* first call's result, labels and contents included; and it ends as the   *)
(* first call ended, with the same list of records or the same exception.  *)
C13_SameOutputTwice ==
    run = 2 =>
        /\ (previous[1] = "returned" =>
                /\ Len(results) <= Len(previous[2])
                /\ \A k \in 1..Len(results) : results[k] = previous[2][k])
        /\ (pc \in {"done", "raised"} => Outcome = previous)

\* the second call has returned two records, one of them with a failed
\* check, as the first call did
C13_Witness ==
    /\ run = 2
    /\ pc = "done"
    /\ previous[1] = "returned"
    /\ Len(results) = 2
    /\ \E k \in 1..2 : \E f \in 2..Len(results[k]) : IsFailure(results[k][f][2])
    /\ \E k \in 1..2 : \E f \in 2..Len(results[k]) : IsReply(results[k][f][2])

-----------------------------------------------------------------------------
(* C14: invoked on an empty paragraph sequence, process_paragraphs returns *)
(* an empty result sequence without error, and makes no completion call,   *)
(* no progress notification and no pause, whatever the config is (an       *)
(* empty credential, max_retries = 0 and requirements included).           *)
C14_EmptyInput ==
    paragraphs = <<>> =>
        /\ pc \in {"for", "done"}
        /\ (pc = "for" => ENABLED Next)
        /\ exc = "none"
        /\ results = <<>>
        /\ calls = 0
        /\ notes = <<>>
        /\ clock = 0
        /\ sleeps.backoff + sleeps.refresh + sleeps.throttle = 0

\* an empty document has been processed to the end with a callback, no
\* credential, no attempt allowed and two requirements
C14_Witness ==
    /\ paragraphs = <<>>
    /\ pc = "done"
    /\ progress_callback = "ok"
    /\ config.api_key = ""
    /\ config.max_retries = 0
    /\ Len(config.additional_checks) = 2

-----------------------------------------------------------------------------
\* the notifications with the processing message, in order
ProcessingNotes == SelectSeq(notes, LAMBDA x : x[3][1] = "processing")

\* the number of paragraphs the loop has entered so far
ParagraphsEntered == IF pc \in {"for", "done"} THEN i ELSE i + 1

(* C15: when a progress callback is supplied, it is invoked for each       *)
(* paragraph at 0-based position i with (i, total, processing message)     *)
(* exactly once, before any completion call for that paragraph: whenever   *)
(* the loop is inside paragraph i (a completion call included), exactly    *)
(* i+1 processing notifications have been made, and before it enters       *)
(* paragraph i exactly i; the k-th of them reports position k-1, the       *)
(* total len(P) and the message for paragraph k of len(P).  Without a      *)
(* callback nothing is notified.                                           *)
C15_ProgressNotifications ==
    /\ progress_callback = "none" => notes = <<>>
    /\ progress_callback = "ok" =>
        /\ Len(ProcessingNotes) = ParagraphsEntered
        /\ (pc \in {"try", "ret"} => Len(ProcessingNotes) = i + 1)
        /\ \A k \in 1..Len(ProcessingNotes) :
              ProcessingNotes[k] =
                  <<k - 1, Len(paragraphs), <<"processing", k, Len(paragraphs)>>>>

\* a run with a callback over at least three paragraphs has ended, with
\* retries and session refreshes on the way
C15_Witness ==
    /\ progress_callback = "ok"
    /\ pc = "done"
    /\ Len(paragraphs) >= 3
    /\ Len(ProcessingNotes) = Len(paragraphs)
    /\ Len(notes) > Len(ProcessingNotes)
    /\ calls > Len(paragraphs)

-----------------------------------------------------------------------------
\* the keys of the row r, in order
RowKeys(r) == [k \in 1..Len(r) |-> r[k][1]]

\* the check fields of the row r whose value satisfies Test
FieldsOf(r, Test(_)) == {f \in 2..Len(r) : Test(r[f][2])}

\* the number of check fields, of the finished records and of the row under
\* construction, whose value satisfies Test
FieldCount(Test(_)) ==
    Cardinality(UNION {{<<k, f>> : f \in FieldsOf(results[k], Test)} :
                          k \in 1..Len(results)})
    + Cardinality(FieldsOf(row, Test))

(* C16: the pipeline is strictly sequential.  Whenever a completion        *)
(* attempt of paragraph i (0-based) is due, every earlier paragraph is     *)
(* finished: its record is appended with all its fields, its throttle      *)
(* pause and every refresh pause up to position i are taken, and every     *)
(* backoff sleep of every earlier failed attempt is taken.  Within the     *)
(* paragraph the grammar call runs on a row that holds the original text   *)
(* only, and the additional call of position j+1 runs on a row that holds  *)
(* the grammar result and the results of all non-blank requirements        *)
(* before it.  A completion call is one synchronous step of the single     *)
(* thread, so no two are in flight.                                        *)
C16_StrictlySequential ==
    pc = "try" =>
        /\ Len(results) = i
        /\ \A k \in 1..Len(results) : RowKeys(results[k]) = ExpectedKeys
        /\ sleeps.throttle = i
        /\ refreshed = {k \in 1..i : interval # 0 /\ k % interval = 0}
        /\ sleeps.refresh = Cardinality(refreshed)
        /\ sleeps.backoff + FieldCount(IsFailure) = faults
        /\ faults + FieldCount(IsReply) = calls
        /\ IF target = <<"grammar_check", 0>>
           THEN RowKeys(row) = <<<<"original_text", 0>>>>
           ELSE /\ target = <<"additional_check", j + 1>>
                /\ RowKeys(row) = SelectSeq(ExpectedKeys, LAMBDA key : key[2] <= j)

\* the last attempt of the third additional check of the second paragraph
\* is due, after a failed attempt of it and a failed check before it
C16_Witness ==
    /\ pc = "try"
    /\ i = 1
    /\ j = 2
    /\ attempt = 1
    /\ target = <<"additional_check", 3>>
    /\ Len(row) = 3
    /\ FieldCount(IsFailure) >= 1

-----------------------------------------------------------------------------
\* what ProcessingThread.run works on: its position and the frame of
\* core_process_paragraphs
workerVars == <<processing_thread, progress_callback, pc, i, j, row, results,
                prompt, target, attempt, errs, tries, naps, ret, exc, exc_message,
                calls, faults, sleeps, clock, refreshed, notes>>

\* the widgets the claim names: progress bar, status label, start button
widgets == <<progress_bar, status_label, start_btn>>

SignalNames == {"progress_updated", "processing_finished", "error_occurred"}

(* C17: in the desktop front-end the worker thread communicates with the   *)
(* UI only through the signals progress_updated, processing_finished and   *)
(* error_occurred.  Every step of a started ProcessingThread leaves the    *)
(* state of the main window unchanged and at most appends one of these     *)
(* three signals to the queue; and every step that changes the progress    *)
(* bar, the status label or the start button is a step of the UI thread:   *)
(* start_processing creating the thread, or a slot consuming the oldest    *)
(* queued signal, with the worker's own state untouched.                   *)
C17_WorkerOnlyEmits ==
    [][ /\ (processing_thread \in {"started", "running"}
             /\ workerVars' # workerVars) =>
              /\ UNCHANGED uiVars
              /\ \/ signals' = signals
                 \/ /\ Len(signals') = Len(signals) + 1
                    /\ SubSeq(signals', 1, Len(signals)) = signals
                    /\ signals'[Len(signals')][1] \in SignalNames
        /\ widgets' # widgets =>
              \/ /\ processing_thread \in {"none", "finished"}
                 /\ processing_thread' = "started"
                 /\ UNCHANGED signals
              \/ /\ signals # <<>>
                 /\ signals' = Tail(signals)
                 /\ UNCHANGED workerVars
      ]_vars

\* the worker is in its second paragraph; the UI shows the progress of the
\* first one while two later signals wait in the queue
C17_Witness ==
    /\ processing_thread = "running"
    /\ pc = "try"
    /\ i = 1
    /\ ~start_btn
    /\ progress_bar = [visible |-> TRUE, value |-> 50]
    /\ Len(signals) = 2
    /\ signals[1][1] = "progress_updated"

-----------------------------------------------------------------------------
(* C18: absence of the configuration file is not fatal and is signalled    *)
(* distinguishably.  The construction of a GrammarChecker on a missing     *)
(* path writes the default config file and raises ConfigFileNotFoundError  *)
(* carrying the default config: in the handler of main the exception       *)
(* caught has that type and that config, the file exists and there is no   *)
(* checker yet.  The second construction on the same path succeeds: past   *)
(* the handler main has not ended with an exception of the constructor,    *)
(* and the config of its checker equals the defaults, member for member in *)
(* the order of the default dict.  When the file exists no such exception  *)
(* is caught and the file is left as it is.                                *)
C18_MissingConfigFile ==
    /\ main_pc = "except" =>
        /\ caught.type = "ConfigFileNotFoundError"
        /\ caught.config = DefaultConfig
        /\ files[config_path] \notin {Absent, Garbage}
        /\ checker = NoChecker
        /\ main_exc = "none"
    /\ (caught.type = "ConfigFileNotFoundError" /\ main_pc # "except") =>
        /\ main_exc = "none"
        /\ checker # NoChecker
        /\ checker.config = DefaultConfig
        /\ \A k \in 1..Len(DefaultConfig) :
              DictGetDefault(checker.config, DefaultConfig[k][1], <<"missing">>)
                  = DefaultConfig[k][2]
        /\ files[config_path] \notin {Absent, Garbage}
    /\ (main_pc \notin {"idle", "construct"} /\ caught.type = "none") =>
        files[config_path] # Absent

\* main has finished a document of two paragraphs with the checker of its
\* second construction, next to an unreadable file at the other path
C18_Witness ==
    /\ caught.type = "ConfigFileNotFoundError"
    /\ main_pc = "done"
    /\ Len(cli_results) = 2
    /\ checker.paragraph_count = 2
    /\ \E path \in Paths : files[path] = Garbage

-----------------------------------------------------------------------------
(* C19: constant backoff.  Every sleep of call_ai_api lasts exactly        *)
(* retry_delay.  Between attempts the call has slept once for each failed  *)
(* attempt so far; it never sleeps after the final attempt: a call that    *)
(* has returned the failure marker made max_retries attempts and slept     *)
(* max_retries - 1 times, a call that has returned a response on attempt   *)
(* k+1 slept k times, and with max_retries = 1 there is one attempt and    *)
(* no sleep.                                                               *)
C19_ConstantBackoff ==
    /\ \A k \in 1..Len(naps) : naps[k] = config.retry_delay
    /\ pc = "try" =>
        /\ Len(naps) = Len(errs)
        /\ Len(naps) = attempt
        /\ tries = attempt
    /\ pc = "ret" =>
        /\ IsFailure(ret) =>
              /\ tries = config.max_retries
              /\ Len(naps) + 1 = config.max_retries
        /\ IsReply(ret) => Len(naps) + 1 = tries
        /\ ret = <<"None">> => (naps = <<>> /\ tries = 0)
        /\ config.max_retries = 1 => (naps = <<>> /\ tries = 1)
    /\ pc = "raised" => naps = <<>>

\* a call with max_retries = 3 and retry_delay of one second has returned
\* the failure marker after two sleeps
C19_Witness ==
    /\ pc = "ret"
    /\ IsFailure(ret)
    /\ config.max_retries = 3
    /\ config.retry_delay = 2
    /\ naps = <<2, 2>>
    /\ tries = 3

-----------------------------------------------------------------------------
(* C20: the inter-paragraph throttle is unconditional.  After each record  *)
(* is appended the pipeline pauses 0.5 time units (one tick): the number   *)
(* of throttle pauses taken equals the number of records, less the one     *)
(* pause that is due right after an append; a completed run of n           *)
(* paragraphs has taken exactly n of them, the one after the last          *)
(* paragraph included; and the time slept in a run is one tick for each    *)
(* throttle pause, on top of the refresh pauses and the backoff sleeps,    *)
(* whatever checks failed and whatever retry_delay and interval are.       *)
C20_UnconditionalThrottle ==
    /\ sleeps.throttle + (IF pc = "throttle" THEN 1 ELSE 0) = Len(results)
    /\ pc = "done" => sleeps.throttle = Len(paragraphs)
    /\ clock = sleeps.throttle * 1 + sleeps.refresh * 2
                  + sleeps.backoff * config.retry_delay

\* a run of at least two paragraphs has returned after failed attempts,
\* backoff sleeps and refresh pauses
C20_Witness ==
    /\ pc = "done"
    /\ Len(paragraphs) >= 2
    /\ sleeps.throttle = Len(paragraphs)
    /\ faults >= 2
    /\ sleeps.backoff >= 1
    /\ sleeps.refresh >= 1
    /\ config.retry_delay # 1

-----------------------------------------------------------------------------
\* the loop is at a position at which a session refresh is due
AtRefreshPosition ==
    i > 0 /\ i < Len(paragraphs) /\ interval > 0 /\ i % interval = 0

\* what the callback, if there is one, has been told after one more
\* notification of the given kind for the current position
NotesAfter(kind) ==
    IF progress_callback = "none" THEN notes
    ELSE notes \o <<<<i, Len(paragraphs), <<kind, i + 1, Len(paragraphs)>>>>>>

(* C21: at a refresh position the order of events is: the per-paragraph    *)
(* progress notification, then the refresh notification, then a pause of   *)
(* exactly one time unit (two ticks), then the grammar call.  Step by      *)
(* step: from the head of the loop the progress notification is made and   *)
(* nothing else; the next step makes the refresh notification and nothing  *)
(* else; the next one sleeps two ticks, whatever retry_delay is, and       *)
(* notifies nobody; the next one enters the grammar call of that           *)
(* paragraph, with the pause of this position taken.  No notification is   *)
(* made without a callback, the other steps are the same; the refresh      *)
(* pause is taken nowhere else, and failed checks change nothing of it.    *)
C21_RefreshOrder ==
    [][ /\ (pc = "for" /\ AtRefreshPosition) =>
              /\ pc' = "refresh"
              /\ notes' = NotesAfter("processing")
              /\ UNCHANGED <<clock, sleeps, calls, i, refreshed>>
        /\ pc = "refresh" =>
              /\ AtRefreshPosition
              /\ pc' = "pause"
              /\ notes' = NotesAfter("refreshing")
              /\ UNCHANGED <<clock, sleeps, calls, i, refreshed>>
        /\ pc = "pause" =>
              /\ AtRefreshPosition
              /\ i \notin refreshed
              /\ pc' = "grammar"
              /\ clock' = clock + 2
              /\ sleeps' = [sleeps EXCEPT !.refresh = @ + 1]
              /\ refreshed' = refreshed \cup {i}
              /\ UNCHANGED <<notes, calls, i>>
        /\ pc = "grammar" =>
              /\ AtRefreshPosition => i \in refreshed
              /\ pc' \in {"try", "raised"}
              /\ target' = <<"grammar_check", 0>>
              /\ UNCHANGED <<notes, clock, sleeps, calls, i, refreshed>>
        /\ sleeps'.refresh # sleeps.refresh => pc = "pause"
      ]_vars

\* the grammar call of the fourth paragraph is entered after the refresh
\* pause of its position, with a callback, retry_delay 0 and failed checks
\* before it
C21_Witness ==
    /\ pc = "try"
    /\ tries = 0
    /\ target = <<"grammar_check", 0>>
    /\ i = 3
    /\ interval = 3
    /\ refreshed = {3}
    /\ config.retry_delay = 0
    /\ faults >= 2
    /\ progress_callback = "ok"
    /\ Len(notes) = 5
    /\ notes[4][3][1] = "processing"
    /\ notes[5][3][1] = "refreshing"

-----------------------------------------------------------------------------
\* the labels of the additional-check fields of the row r, in row order
LabelSeq(r) ==
    LET fields == SelectSeq(r, LAMBDA kv : kv[1][1] = "additional_check")
    IN  [x \in 1..Len(fields) |-> fields[x][1][2]]

\* the non-blank positions of additional_checks below p, in declared order
RECURSIVE DeclaredBelow(_)
DeclaredBelow(p) ==
    IF p <= 1 THEN <<>>
    ELSE IF \A x \in 1..Len(additional_checks[p - 1]) :
                additional_checks[p - 1][x] = " "
         THEN DeclaredBelow(p - 1)
         ELSE DeclaredBelow(p - 1) \o <<p - 1>>

\* the outcome stored under label p in a record of the paragraph text is
\* the outcome of the call for the requirement declared at position p
OutcomeOfRequirement(v, text, p) ==
    \/ v = <<"reply", CreatePrompt(text, config.language, "additional",
                                   additional_checks[p])>>
    \/ v[1] = "API_CALL_FAILED"
    \/ v = <<"None">> /\ config.max_retries = 0

(* C22: in every record the additional-check outcomes appear in the        *)
(* declared order of their requirements, with gaps in the labelling only   *)
(* where a requirement was blank: the labels of a finished record, in      *)
(* field order, are the positions of the non-blank requirements in         *)
(* ascending order, and the field labelled p holds the outcome of the call *)
(* whose prompt embeds the requirement declared at position p.  The calls  *)
(* are issued in that same order: while the call for position p is in      *)
(* progress or has just returned, the row holds the outcomes of exactly    *)
(* the non-blank requirements declared before p, in order, and the call's  *)
(* prompt is the one built from requirement p.                             *)
C22_DeclaredOrder ==
    /\ \A k \in 1..Len(results) :
        /\ LabelSeq(results[k]) = DeclaredBelow(Len(additional_checks) + 1)
        /\ \A f \in 1..Len(results[k]) :
              results[k][f][1][1] = "additional_check" =>
                  OutcomeOfRequirement(results[k][f][2], paragraphs[k],
                                       results[k][f][1][2])
    /\ (pc \in {"try", "ret"} /\ target[1] = "additional_check") =>
        /\ target[2] \in 1..Len(additional_checks)
        /\ LabelSeq(row) = DeclaredBelow(target[2])
        /\ prompt = CreatePrompt(paragraphs[i + 1], config.language,
                                 "additional", additional_checks[target[2]])
    /\ pc = "additional" => LabelSeq(row) = DeclaredBelow(j + 1)

\* a finished record of the requirements "check logic", "" and " w": the
\* first check failed, the third holds the response to the prompt of " w"
C22_Witness ==
    /\ pc = "done"
    /\ additional_checks = <<LogicReq, EmptyReq, PaddedReq>>
    /\ config.language = "English"
    /\ LabelSeq(results[1]) = <<1, 3>>
    /\ results[1][3][2][1] = "API_CALL_FAILED"
    /\ results[1][4][2] =
           <<"reply", CreatePrompt(paragraphs[1], "English", "additional",
                                   PaddedReq)>>

-----------------------------------------------------------------------------
(* C23: with no progress callback supplied, process_paragraphs does not    *)
(* fail and returns the same records, makes the same completion calls and  *)
(* takes the same pauses as with a callback that does nothing.  Of two     *)
(* calls with the same paragraphs, config and deterministic backend, one   *)
(* with a callback that returns and one without: the second ends as the    *)
(* first did (the same records, or the same exception, which is never one  *)
(* of the notification), after the same number of completion calls, asking *)
(* the backend nothing it was not asked before, and after the same number  *)
(* of pauses at each call site and the same time slept; on its way it has  *)
(* never done more than the first; and without a callback nothing is       *)
(* notified.                                                               *)
C23_CallbackAbsentSame ==
    /\ progress_callback = "none" =>
          /\ notes = <<>>
          /\ exc \in {"none", "ValueError"}
    /\ run = 2 =>
          /\ calls <= previous[2]
          /\ answers = previous[3]
          /\ clock <= previous[5]
          /\ pc \in {"done", "raised"} =>
                <<Outcome, calls, answers, sleeps, clock>> = previous

\* the call without a callback has returned two records as the call with
\* one did, after failed attempts, backoff sleeps and a refresh pause
C23_Witness ==
    /\ run = 2
    /\ progress_callback = "none"
    /\ pc = "done"
    /\ previous[1][1] = "returned"
    /\ Len(results) = 2
    /\ faults >= 2
    /\ sleeps.backoff >= 1
    /\ sleeps.refresh = 1
    /\ sleeps.throttle = 2

-----------------------------------------------------------------------------
\* process_paragraphs has raised the configuration error of call_ai_api
ConfigurationErrorRaised == pc = "raised" /\ exc = "ValueError"

(* C24, as the spec states it: a fatal configuration error aborts before   *)
(* any partial work: when the credential is empty, at the moment the error *)
(* is raised no record has been produced, no completion call has been      *)
(* made, no pause has been taken and no progress notification has been     *)
(* delivered.                                                              *)
C24_NothingBeforeAbort ==
    ConfigurationErrorRaised =>
        /\ results = <<>>
        /\ calls = 0
        /\ clock = 0
        /\ sleeps = [backoff |-> 0, refresh |-> 0, throttle |-> 0]
        /\ notes = <<>>

(* C24, amended: when the credential is empty, at the moment the error is  *)
(* raised no record has been produced, no completion call has been made    *)
(* and no pause has been taken; the progress callback, if one is supplied, *)
(* has been notified exactly once, of the first paragraph (position 0),    *)
(* because the notification of a paragraph precedes its grammar call,      *)
(* which is where the credential is validated.                             *)
C24_OneNotificationBeforeAbort ==
    ConfigurationErrorRaised =>
        /\ config.api_key = ""
        /\ results = <<>>
        /\ calls = 0
        /\ clock = 0
        /\ sleeps = [backoff |-> 0, refresh |-> 0, throttle |-> 0]
        /\ notes = IF progress_callback = "none" THEN <<>>
                   ELSE <<<<0, Len(paragraphs),
                            <<"processing", 1, Len(paragraphs)>>>>>>

\* the error has been raised in a run over two paragraphs with a callback,
\* an interval of 1 and two requirements
C24_Witness ==
    /\ ConfigurationErrorRaised
    /\ progress_callback = "ok"
    /\ Len(paragraphs) = 2
    /\ interval = 1
    /\ Len(additional_checks) = 2
    /\ Len(notes) = 1

-----------------------------------------------------------------------------
\* the command line run has printed the message named
Printed(name) == \E k \in 1..Len(printed) : printed[k] = <<"lit", name>>

\* the desktop half of C25: the slot of processing_finished shows the
\* completion message or the message of a failed save, the slot of
\* error_occurred the message of a processing error, which is another one
DesktopSaveFailureDistinct ==
    [][ (signals # <<>> /\ signals' = Tail(signals)) =>
          /\ Head(signals)[1] = "processing_finished" =>
                \/ dialog' = <<"critical", <<<<"lit", "saving_the_excel_file_failed">>>>>>
                \/ /\ dialog'[1] = "information"
                   /\ saved' = Head(signals)[2]
          /\ Head(signals)[1] = "error_occurred" =>
                /\ dialog'[1] = "critical"
                /\ dialog'[2][1] = <<"lit", "error_while_processing">>
                /\ saved' = saved
      ]_vars

(* C25: a failure of the result writer is surfaced to the invoking layer   *)
(* distinctly from a processing error.  The desktop front-end reports a    *)
(* save failure with a different message than a processing failure         *)
(* (DesktopSaveFailureDistinct); and the command-line run does not report  *)
(* a successful completion when saving the spreadsheet failed: a run that  *)
(* has printed the error of save_to_excel has not printed the completion   *)
(* report with the result file.                                            *)
C25_SaveFailureSurfaced ==
    (main_pc = "done" /\ Printed("zh_error_while_saving_excel")) =>
        /\ ~Printed("zh_processing_finished")
        /\ ~Printed("zh_result_file")

-----------------------------------------------------------------------------
\* the literal pieces of the Chinese and of the English templates
ChineseLiterals ==
    {"zh_grammar_head", "zh_answer_in_chinese", "zh_sentinel_grammar_correct",
     "zh_else_point_out", "zh_check_head", "zh_evaluate_in_chinese"}

EnglishLiterals ==
    {"en_grammar_head", "en_respond_in_english", "en_sentinel_grammar_is_correct",
     "en_else_point_out", "en_check_head", "en_evaluate_in_english"}

\* the parts of the string s of the given kind
PartsOf(s, kind) == {x \in 1..Len(s) : s[x][1] = kind}

(* C26: create_prompt is a pure, deterministic function.  Successive calls *)
(* on equal arguments return equal strings.  The string embeds the         *)
(* paragraph text verbatim, once.  Language "Chinese" (the source's        *)
(* Chinese-language literal) gives the Chinese instruction and every other *)
(* language value the English one.  The kind "grammar" includes the        *)
(* no-error sentinel phrase of that language and omits the requirement;    *)
(* every other kind embeds the custom requirement verbatim, leading and    *)
(* trailing whitespace included, and has no sentinel.                      *)
C26_CreatePromptPure ==
    /\ \A k, l \in 1..Len(create_prompt_returns) :
          create_prompt_returns[k] = create_prompt_returns[l]
    /\ \A k \in 1..Len(create_prompt_returns) :
          LET s == create_prompt_returns[k]
              literals == IF create_prompt_args.language = "Chinese"
                          THEN ChineseLiterals ELSE EnglishLiterals
              sentinel == IF create_prompt_args.language = "Chinese"
                          THEN "zh_sentinel_grammar_correct"
                          ELSE "en_sentinel_grammar_is_correct"
          IN  /\ Cardinality(PartsOf(s, "text")) = 1
              /\ \A x \in PartsOf(s, "text") : s[x][2] = create_prompt_args.text
              /\ \A x \in PartsOf(s, "lit") : s[x][2] \in literals
              /\ PartsOf(s, "lit") # {}
              /\ IF create_prompt_args.check_type = "grammar"
                 THEN /\ \E x \in PartsOf(s, "lit") : s[x][2] = sentinel
                      /\ PartsOf(s, "requirement") = {}
                 ELSE /\ \A x \in PartsOf(s, "lit") : s[x][2] # sentinel
                      /\ Cardinality(PartsOf(s, "requirement")) = 1
                      /\ \A x \in PartsOf(s, "requirement") :
                            s[x][2] = create_prompt_args.custom_requirement

\* two calls with a language that is neither of the two the programs pass,
\* a kind that is not "grammar" and a requirement with leading whitespace
C26_Witness ==
    /\ Len(create_prompt_returns) = 2
    /\ create_prompt_args.language = "chinese"
    /\ create_prompt_args.check_type = "Grammar"
    /\ create_prompt_args.custom_requirement = <<" ", "w">>
    /\ create_prompt_returns[2] =
           <<<<"lit", "en_check_head">>, <<"requirement", <<" ", "w">>>>,
             <<"text", create_prompt_args.text>>,
             <<"lit", "en_evaluate_in_english">>>>

-----------------------------------------------------------------------------
\* the positions in the queue of the signals that end a run
TerminalSignals ==
    {k \in 1..Len(signals) :
        signals[k][1] \in {"processing_finished", "error_occurred"}}

\* a ProcessingThread is in flight: started, and its run has not yet
\* emitted the signal that ends it
InFlight == processing_thread \in {"started", "running"}

\* a run is started and its finished or error slot has not run yet
RunOpen == InFlight \/ TerminalSignals # {}

\* the start button and the thread agree
ButtonGuardsRun ==
    /\ RunOpen => ~start_btn
    /\ InFlight => TerminalSignals = {}
    /\ Cardinality(TerminalSignals) <= 1

(* C27: in the desktop front-end at most one ProcessingThread is in flight *)
(* at any time.  The start button is disabled from the moment a run is     *)
(* started until its finished or error slot has run: it is disabled while  *)
(* the thread is in flight and while the signal that ends the run waits in *)
(* the queue, of which there is at most one.  A thread is started only by  *)
(* a click on the enabled button, with a document loaded and a credential  *)
(* given, when no thread is in flight and no run is open; and the step     *)
(* that disables the button is the step that starts the thread.  A start   *)
(* request that fails validation (no paragraphs, no credential) shows its  *)
(* warning, starts no thread and leaves the button enabled.                *)
C27_OneThreadInFlight ==
    [][ /\ ButtonGuardsRun
        /\ ButtonGuardsRun'
        /\ (processing_thread' = "started" /\ processing_thread # "started") =>
              /\ ~RunOpen
              /\ start_btn
              /\ ~start_btn'
              /\ current_paragraphs # <<>>
              /\ (form.OPENAI_API_KEY # "" \/ form.openai_key_input # "")
              /\ paragraphs' = current_paragraphs
        /\ (start_btn /\ ~start_btn') => processing_thread' = "started"
        /\ (dialog' # dialog /\ dialog'[1] = "warning") =>
              /\ \/ current_paragraphs = <<>>
                 \/ form.OPENAI_API_KEY = "" /\ form.openai_key_input = ""
              /\ start_btn
              /\ start_btn'
              /\ UNCHANGED <<processing_thread, signals, progress_bar,
                             status_label, paragraphs, config>>
      ]_vars

\* the second run is in flight, its call in progress, after the first one
\* was saved; the button is disabled
C27_Witness ==
    /\ run = 2
    /\ processing_thread = "running"
    /\ pc = "try"
    /\ ~start_btn
    /\ dialog[1] = "information"
    /\ signals # <<>>

-----------------------------------------------------------------------------
\* the signal sig ends a run
Terminal(sig) == sig[1] \in {"processing_finished", "error_occurred"}

\* the widgets are as the slot that ends a run leaves them
WidgetsReset == start_btn /\ ~progress_bar.visible /\ ~status_label.visible

(* C28: in the desktop front-end every started ProcessingThread emits      *)
(* exactly one terminal signal, either processing_finished or              *)
(* error_occurred and never both, after all its progress_updated signals;  *)
(* and after the terminal slot has run the start button is enabled again   *)
(* and the progress widgets are hidden, also when saving the spreadsheet   *)
(* fails.  Safety: a thread in flight emits progress_updated only, one     *)
(* signal at a time, until the step that ends it, which appends exactly    *)
(* one terminal signal, processing_finished if the pipeline returned and   *)
(* error_occurred if it raised; nothing is emitted when no thread is in    *)
(* flight, so that the terminal signal is the last of its run in the       *)
(* queue; and the step that delivers a terminal signal leaves the button   *)
(* enabled and the progress widgets hidden, whatever to_excel did.         *)
(* Liveness, under a fair scheduler and event loop: a started thread       *)
(* reaches its end with its terminal signal queued, and a queued terminal  *)
(* signal is delivered with the widgets reset.                             *)
C28_OneTerminalSignal ==
    /\ [][ /\ Len(signals') <= Len(signals) + 1
           /\ Len(signals') = Len(signals) + 1 =>
                 /\ SubSeq(signals', 1, Len(signals)) = signals
                 /\ processing_thread \in {"started", "running"}
                 /\ \A k \in 1..Len(signals) : ~Terminal(signals[k])
                 /\ Terminal(signals'[Len(signals')]) <=>
                        processing_thread' = "finished"
           /\ (processing_thread \in {"started", "running"}
                  /\ processing_thread' = "finished") =>
                 /\ Len(signals') = Len(signals) + 1
                 /\ signals'[Len(signals')][1] =
                        (IF pc = "done" THEN "processing_finished"
                         ELSE "error_occurred")
           /\ (signals # <<>> /\ Terminal(Head(signals))
                  /\ signals' = Tail(signals)) =>
                 /\ signals' = <<>>
                 /\ WidgetsReset'
                 /\ dialog'[1] \in {"information", "critical"}
                 /\ UNCHANGED processing_thread
         ]_vars
    /\ (processing_thread = "started") ~>
           (processing_thread = "finished" /\ signals # <<>>
               /\ Terminal(signals[Len(signals)]))
    /\ (signals # <<>> /\ Terminal(signals[Len(signals)])) ~>
           (signals = <<>> /\ WidgetsReset)

\* the slot of processing_finished has run and saving failed: the button
\* is enabled, the progress widgets are hidden, the queue is empty
C28_Witness ==
    /\ processing_thread = "finished"
    /\ signals = <<>>
    /\ dialog = <<"critical", <<<<"lit", "saving_the_excel_file_failed">>>>>>
    /\ saved = <<>>
    /\ start_btn
    /\ ~progress_bar.visible
    /\ ~status_label.visible
    /\ progress_bar.value = 100

-----------------------------------------------------------------------------
\* the value v is a Python str: a response or the failure marker
IsString(v) == v[1] \in {"reply", "API_CALL_FAILED"}

\* the values stored so far in the check fields of the finished records
\* and of the row under construction
StoredOutcomes ==
    UNION {{results[k][f][2] : f \in 2..Len(results[k])} : k \in 1..Len(results)}
    \cup {row[f][2] : f \in 2..Len(row)}

(* C29: call_ai_api with a non-empty credential never raises.  With        *)
(* max_retries >= 1 it always returns a string, the backend's response or  *)
(* the error marker, after at least one backend attempt, and every         *)
(* outcome stored in a record is such a string.  With max_retries = 0 it   *)
(* makes no backend attempt and no sleep and returns no string (None),     *)
(* and process_paragraphs stores None as the outcome of the field: every   *)
(* record still has all its fields, each holding None.                     *)
C29_ReturnsStringOrNone ==
    config.api_key # "" =>
        /\ pc # "raised"
        /\ exc = "none"
        /\ IF config.max_retries >= 1
           THEN /\ pc = "ret" => (IsString(ret) /\ tries >= 1)
                /\ \A v \in StoredOutcomes : IsString(v)
           ELSE /\ pc = "ret" => (ret = <<"None">> /\ tries = 0 /\ naps = <<>>)
                /\ calls = 0
                /\ clock = sleeps.throttle + 2 * sleeps.refresh
                /\ \A v \in StoredOutcomes : v = <<"None">>
                /\ \A k \in 1..Len(results) :
                      Len(results[k]) =
                          2 + Cardinality({q \in 1..Len(additional_checks) :
                                  \E x \in 1..Len(additional_checks[q]) :
                                      additional_checks[q][x] # " "})

\* a run with max_retries = 0 has returned two records of three fields,
\* the grammar check and the additional check holding None
C29_Witness ==
    /\ config.api_key # ""
    /\ config.max_retries = 0
    /\ pc = "done"
    /\ calls = 0
    /\ Len(results) = 2
    /\ Len(results[2]) = 3
    /\ results[2][2][2] = <<"None">>
    /\ results[2][3][2] = <<"None">>

-----------------------------------------------------------------------------
\* m: the number of requirements of additional_checks that are not blank
NonBlankCount ==
    Cardinality({q \in 1..Len(config.additional_checks) :
                    \E x \in 1..Len(config.additional_checks[q]) :
                        config.additional_checks[q][x] # " "})

(* C30: process_paragraphs terminates for every finite input: every run    *)
(* comes to its return or to an exception, given that each sleep and each  *)
(* backend call comes to an end.  For max_retries >= 1 and a non-empty     *)
(* credential a completed run of n paragraphs with m non-blank additional  *)
(* checks has invoked the backend at least n*(1+m) and at most             *)
(* n*(1+m)*max_retries times; on the way, with k paragraphs finished, at   *)
(* least k*(1+m) and at most (k+1)*(1+m)*max_retries times.                *)
C30_TerminatesWithinBounds ==
    /\ <>(pc \in {"done", "raised"})
    /\ []((config.api_key # "" /\ config.max_retries >= 1) =>
            /\ calls >= Len(results) * (1 + NonBlankCount)
            /\ calls <= (Len(results) + 1) * (1 + NonBlankCount)
                            * config.max_retries
            /\ pc = "done" =>
                  /\ Len(results) = Len(paragraphs)
                  /\ calls >= Len(paragraphs) * (1 + NonBlankCount)
                  /\ calls <= Len(paragraphs) * (1 + NonBlankCount)
                                  * config.max_retries)

\* a completed run of two paragraphs with two non-blank checks out of
\* three and max_retries = 2, between the two bounds: 6 < 8 < 12
C30_Witness ==
    /\ pc = "done"
    /\ config.max_retries = 2
    /\ Len(paragraphs) = 2
    /\ Len(config.additional_checks) = 3
    /\ NonBlankCount = 2
    /\ calls = 8

-----------------------------------------------------------------------------
(* C31: the retry policy of a desktop run                                   *)

\* the value call_ai_api has returned is the failure marker
ReturnedFailure == pc = "ret" /\ IsFailure(ret)

-----------------------------------------------------------------------------
(* C32: the pipeline of the Streamlit program and the shared one           *)

\* the values stored in the rows rs under keys other than the original text
StoredValues(rs) ==
    {rs[k][f][2] : <<k, f>> \in
        {x \in (1..Len(rs)) \X (1..MaxChecks + 2) :
            x[2] \in 2..Len(rs[x[1]])}}

\* every check of the Streamlit run was one backend attempt: as many
\* completion calls as stored values, each value the reply or the marker of
\* the first error, whatever max_retries the sidebar holds
OneAttemptPerCheck ==
    LET rows == IF st_pc = "additional" THEN Append(st_results, result_row)
                ELSE st_results
        stored == [k \in 1..Len(rows) |-> Len(rows[k]) - 1]
        Sum[k \in 0..Len(rows)] == IF k = 0 THEN 0 ELSE Sum[k - 1] + stored[k]
    IN /\ st_pc \in {"for", "additional", "returned"} =>
            Len(st_completions) = Sum[Len(rows)]
       /\ \A v \in StoredValues(rows) :
            IsReply(v) \/ v = FailureString(Raised(0))
       /\ st_faults <= Len(st_completions)

\* the shared run makes the completion calls of the Streamlit run, in
\* order, prompts compared through view; it ends with as many calls, the
\* same field names and the same pauses
SharedRunMatches(View(_)) ==
    run = 2 =>
        /\ pc = "try" =>
            /\ calls < Len(previous.completions)
            /\ View(prompt) = View(previous.completions[calls + 1])
        /\ pc = "done" =>
            /\ calls = Len(previous.completions)
            /\ Labels(results) = previous.labels
            /\ sleeps = previous.sleeps
            /\ clock = previous.clock
        /\ pc # "raised"

\* a prompt as it is
Verbatim(p) == p

\* a prompt without the wording of its sentinel line
WithoutSentinelWording(p) ==
    [k \in 1..Len(p) |->
        IF p[k] \in {Lit("zh_answer_grammar_correct"),
                     Lit("zh_sentinel_grammar_correct"),
                     Lit("en_respond_grammar_is_correct"),
                     Lit("en_sentinel_grammar_is_correct")}
        THEN Lit("sentinel_line") ELSE p[k]]

\* C32: the pipeline of the Streamlit program makes exactly one backend
\* attempt per check whatever max_retries is configured, and stores the
\* error marker after the first failure; for a non-zero interval its
\* completion calls, its field labels and its pauses equal those of the
\* shared process_paragraphs run with max_retries = 1
C32_StreamlitEqualsSharedOnce ==
    /\ OneAttemptPerCheck
    /\ SharedRunMatches(Verbatim)

\* what holds of the two pipelines: one attempt per check, and the same
\* calls up to the wording of the sentinel line of the grammar prompt, the
\* same field labels, the same pauses
StreamlitEqualsSharedUpToWording ==
    /\ OneAttemptPerCheck
    /\ SharedRunMatches(WithoutSentinelWording)

\* both runs have ended, of two paragraphs with a blank requirement and a
\* real one, the sidebar holding max_retries = 3, the Streamlit run having
\* stored a marker
StreamlitComparedAtEnd ==
    /\ run = 2
    /\ pc = "done"
    /\ session_state.max_retries = DefaultMaxRetries
    /\ Len(paragraphs) = 2
    /\ config.additional_checks = <<SpacesReq, LogicReq>>
    /\ st_faults > 0
    /\ sleeps.refresh = 1

-----------------------------------------------------------------------------
(* C33: the refresh cadence of the command line GrammarChecker in a batch  *)

\* the paragraphs of the first d documents of the batch
ParagraphsOfDocuments[d \in 0..MaxDocs + 1] ==
    IF d = 0 \/ d > Len(word_files) THEN 0
    ELSE ParagraphsOfDocuments[d - 1] + Len(word_files[d])

\* the paragraphs the checker has begun so far, in all its run calls: those
\* of the documents before the current one and those of the current one
\* up to the position of the loop
ParagraphsBegun ==
    ParagraphsOfDocuments[batch_i - 1] +
        (CASE main_pc = "run" -> 0
           [] main_pc = "loop" -> cli_i
           [] main_pc \in {"grammar", "additional"} -> cli_i + 1
           [] OTHER -> Len(word_files[batch_i]))

\* the session_refresh_interval the checker was constructed with
BatchInterval ==
    LET at == {k \in 1..Len(checker.config) :
                  checker.config[k][1] = "session_refresh_interval"}
    IN IF at = {} THEN DefaultInterval
       ELSE checker.config[CHOOSE k \in at : TRUE][2][2]

\* C33: the refresh cadence of the command line GrammarChecker follows a
\* 1-based paragraph counter that is never reset: paragraph_count is the
\* number of paragraphs begun by this checker in all the run calls of the
\* batch, and a refresh is counted whenever it is a multiple of the
\* interval, so that after N paragraphs session_count is the integer part
\* of N divided by the interval, wherever the documents begin and end
C33_RefreshCadenceAcrossDocuments ==
    (checker # NoChecker /\ BatchInterval > 0) =>
        /\ checker.paragraph_count = ParagraphsBegun
        /\ checker.session_count = ParagraphsBegun \div BatchInterval

\* the first paragraph of the second document is the second paragraph of
\* the batch: with an interval of 2 it counts the first refresh
C33_Witness ==
    /\ checker # NoChecker
    /\ BatchInterval = 2
    /\ Len(word_files[1]) = 1
    /\ batch_i = 2
    /\ main_pc = "grammar"
    /\ cli_i = 0
    /\ checker.session_count = 1

-----------------------------------------------------------------------------
(* C34: a document loaded while a run is in flight                         *)

\* the step emits processing_finished
FinishedEmitted ==
    /\ Len(signals') = Len(signals) + 1
    /\ signals'[Len(signals')][1] = "processing_finished"

\* the rows produced so far are those of the first paragraphs of ps
RowsFollow(ps) ==
    /\ Len(results) <= Len(ps)
    /\ \A k \in 1..Len(results) : results[k][1] = <<OriginalKey, ps[k]>>

\* C34: in the desktop program, loading another document while a run is in
\* flight does not change the paragraphs of that run.  The thread is
\* started with the list loaded at that moment; no step taken while it is
\* in flight changes that list, and a step that loads a document changes
\* nothing of the run; the rows the thread produces follow that list, and
\* the data frame it delivers has as many records as that list has
\* paragraphs.
C34_InFlightRunKeepsItsList ==
    [][ /\ (processing_thread' = "started" /\ processing_thread # "started") =>
              paragraphs' = current_paragraphs
        /\ InFlight =>
              /\ paragraphs' = paragraphs
              /\ RowsFollow(paragraphs)
        /\ (InFlight /\ current_paragraphs' # current_paragraphs) =>
              UNCHANGED <<paragraphs, config, pc, i, j, row, results, calls,
                          processing_thread, signals>>
        /\ FinishedEmitted =>
              Len(signals'[Len(signals')][2].rows) = Len(paragraphs)
      ]_vars

\* the first run, started with two paragraphs, has produced its two rows
\* and is about to deliver them; a document of another length was loaded
\* meanwhile
C34_Witness ==
    /\ run = 1
    /\ processing_thread = "running"
    /\ pc = "done"
    /\ Len(paragraphs) = 2
    /\ Len(results) = 2
    /\ ~same_list
    /\ Len(current_paragraphs) = 1

-----------------------------------------------------------------------------
\* the progress_updated signals in the queue, in the order of their
\* emission: <<"progress_updated", value, <<kind, position, total>>>>
ProgressSignals == SelectSeq(signals, LAMBDA s : s[1] = "progress_updated")

\* floor(position * 100 / n), for the 1-based position i + 1
ExactPercent(position, n) == (position * 100) \div n

\* the emitted values never decrease
ValuesNonDecreasing ==
    \A k \in 2..Len(ProgressSignals) :
        ProgressSignals[k - 1][2] <= ProgressSignals[k][2]

\* once the loop is inside the last paragraph, the value 100 has been
\* emitted for it, and it was emitted before any completion call for that
\* paragraph: the calls made until the grammar check begins are those of
\* the paragraphs before it, one each
HundredWhenLastStarts ==
    (processing_thread = "running" /\ i = total - 1 /\ pc # "for") =>
        /\ \E k \in 1..Len(ProgressSignals) :
              ProgressSignals[k] =
                  <<"progress_updated", 100, <<"processing", total, total>>>>
        /\ pc \in {"refresh", "pause", "grammar"} => calls = total - 1

(* C35 as stated: the value the desktop callback emits for position i of   *)
(* total is floor((i+1)*100/total); over a run the emitted values are      *)
(* non-decreasing and lie in 1..100, and 100 is emitted when the last      *)
(* paragraph starts, before its completion calls.                          *)
C35_ProgressIsExactFloor ==
    /\ \A k \in 1..Len(ProgressSignals) :
          LET s == ProgressSignals[k]
          IN /\ s[2] = ExactPercent(s[3][2], s[3][3])
             /\ s[2] \in 1..100
    /\ ValuesNonDecreasing
    /\ HundredWhenLastStarts

(* C35, amended: the value emitted for position i of total is              *)
(* int((i+1)/total*100) in double-precision arithmetic, which is           *)
(* floor((i+1)*100/total) or one less than it; over a run the emitted      *)
(* values are non-decreasing and lie in 0..100, in 1..100 when total is at *)
(* most 100, and 100 is emitted when the last paragraph starts, before its *)
(* completion calls.                                                       *)
C35_ProgressIsFloatTruncation ==
    /\ \A k \in 1..Len(ProgressSignals) :
          LET s == ProgressSignals[k]
              exact == ExactPercent(s[3][2], s[3][3])
          IN /\ s[2] = exact \/ s[2] + 1 = exact
             /\ s[2] \in 0..100
             /\ s[3][3] <= 100 => s[2] >= 1
    /\ ValuesNonDecreasing
    /\ HundredWhenLastStarts

\* a run has ended whose values went up to 100 and one of which is one
\* less than the exact floor
C35_Witness ==
    /\ processing_thread = "finished"
    /\ Len(ProgressSignals) >= Len(paragraphs)
    /\ ProgressSignals[Len(ProgressSignals)][2] = 100
    /\ \E k \in 1..Len(ProgressSignals) :
          ProgressSignals[k][2] + 1 =
              ExactPercent(ProgressSignals[k][3][2], ProgressSignals[k][3][3])

-----------------------------------------------------------------------------
\* the text has a character that is not whitespace
NonBlank(text) == \E n \in 1..Len(text) : text[n] \notin Whitespace

\* a non-blank text from its first to its last character that is not
\* whitespace
Core(text) ==
    LET solid == {n \in 1..Len(text) : text[n] \notin Whitespace}
        first == CHOOSE n \in solid : \A m \in solid : n <= m
        last == CHOOSE n \in solid : \A m \in solid : m <= n
    IN SubSeq(text, first, last)

\* the positions of the non-blank texts of a raw document
Kept(raw) == {k \in 1..Len(raw) : NonBlank(raw[k])}

\* out has the cores of the non-blank texts of raw, in their order
IsReadingOf(out, raw) ==
    /\ Len(out) = Cardinality(Kept(raw))
    /\ \A k \in Kept(raw) :
          out[Cardinality({m \in Kept(raw) : m <= k})] = Core(raw[k])

\* what the reader that has returned left to its program
Yielded ==
    IF reader = "cli_returned" THEN word_paragraphs ELSE current_paragraphs

\* the reader has returned, and what it yielded is right for a readable
\* file
ReadableFilesAreRead ==
    reader \in {"cli_returned", "desktop_returned"} =>
        /\ main_exc = "none"
        /\ word_file.readable => IsReadingOf(Yielded, word_file.raw)

(* C36: the document reader returns the stripped texts of the document's   *)
(* paragraphs in document order, omitting every paragraph that is empty    *)
(* after stripping; a document with no non-empty paragraph, or one that    *)
(* cannot be read, yields an empty sequence rather than an error.          *)
C36_ReaderYieldsStrippedNonEmpty ==
    /\ ReadableFilesAreRead
    /\ reader \in {"cli_returned", "desktop_returned"} =>
          ((~word_file.readable \/ Kept(word_file.raw) = {}) => Yielded = <<>>)

\* the command line reader alone
CliReaderYieldsStrippedNonEmpty ==
    reader = "cli_returned" => C36_ReaderYieldsStrippedNonEmpty

\* the desktop window holds an earlier document and a file that cannot be
\* read has been chosen
UnreadableAfterLoaded ==
    /\ reader = "desktop_returned"
    /\ ~word_file.readable
    /\ current_paragraphs # <<>>

====
